---------------------------- MODULE Spec2Model ----------------------------
(***************************************************************************)
(* The simple motion planner of tesseract_planning: SimpleMotionPlanner    *)
(* (simple_motion_planner.cpp) walking a CompositeInstruction and the LVS  *)
(* step generators (lvs_interpolation.cpp) it dispatches to.  Four         *)
(* specifications: Spec (solve() on a planner with registrations), SpecLVS *)
(* and SpecFixed (a step generator called on its own), SpecLifecycle       *)
(* (clone(), clear() and terminate()).                                     *)
(*                                                                         *)
(* Numbers.  Authored joint positions, environment joint values and        *)
(* inverse-kinematics solutions are vectors of integers; a pose is a pair  *)
(* of integers (translation t, rotation r) and poses compose by addition.  *)
(* Interpolated joint states are exact rationals [num, den] in lowest      *)
(* terms, so that equality of emitted states is structural.                *)
(***************************************************************************)
EXTENDS Integers, Sequences, FiniteSets, TLC

VARIABLES
    planner,            \* the SimpleMotionPlanner: name_ and plan_profiles
    request,            \* the PlannerRequest handed to solve()
    response,           \* the PlannerResponse: status and results
    pc,                 \* position of the solve() call
    stack,              \* activation records of processCompositeInstruction
    start_waypoint,     \* the running waypoint (Waypoint& start_waypoint)
    start_instruction,  \* MoveInstruction returned by getStartInstruction
    outcome,            \* how solve() ended: returned / thrown / aborted
    returned,           \* the StatusCode solve() returned
    calls,              \* the strategy calls made so far, in order
    kin,                \* kinematics lookups and calls made so far
    build,              \* "any" until a failed assert shows the build is NDEBUG
    error_what,         \* e.what() logged by the catch block of solve()
    lvs,                \* a direct call of a step generator: arguments and result
    life                \* the last clone(), clear() or terminate() and its result

vars == <<planner, request, response, pc, stack, start_waypoint,
          start_instruction, outcome, returned, calls, kin, build, error_what, lvs,
          life>>

-----------------------------------------------------------------------------
(* Bounds of the model *)

\* number of instructions of a program with nested composites
MaxNodes == 3

\* number of solutions one inverse-kinematics call returns at most
MaxSolutions == 2

-----------------------------------------------------------------------------
(* Small helpers *)

Abs(x) == IF x < 0 THEN -x ELSE x

\* a maximum that keeps its first argument
Max_Left(a, b) == a

Max(a, b) == IF a < b THEN b ELSE a

RECURSIVE Gcd(_, _)
Gcd(a, b) == IF b = 0 THEN Abs(a) ELSE Gcd(b, a % b)

RECURSIVE GcdAll(_)
GcdAll(s) == IF s = <<>> THEN 0 ELSE Gcd(Head(s), GcdAll(Tail(s)))

\* an integer vector as an exact rational vector
Rat(v) == [num |-> v, den |-> 1]

\* lowest terms of the rational vector num / den (den > 0)
Normalize(num, den) ==
    LET g == Gcd(GcdAll(num), den)
    IN  [num |-> [i \in DOMAIN num |-> num[i] \div g], den |-> den \div g]

\* squared Euclidean norm of a - b
Dist2(a, b) ==
    LET RECURSIVE Sum(_)
        Sum(i) == IF i = 0 THEN 0 ELSE (a[i] - b[i]) * (a[i] - b[i]) + Sum(i - 1)
    IN  Sum(Len(a))

\* int(sqrt(d2) / limit) for d2 >= 0 and limit > 0
FloorNormDiv(d2, limit) ==
    CHOOSE k \in 0..d2 :
        /\ k * k * limit * limit <= d2
        /\ (k + 1) * (k + 1) * limit * limit > d2

\* sequences over S of length 0..n
RECURSIVE SeqsUpTo(_, _)
SeqsUpTo(S, n) ==
    IF n = 0 THEN {<<>>}
    ELSE LET shorter == SeqsUpTo(S, n - 1)
         IN  shorter \cup {Append(s, x) : s \in {t \in shorter : Len(t) = n - 1}, x \in S}

-----------------------------------------------------------------------------
(* Waypoints, instructions and manipulator information *)

NullWaypoint == [k |-> "null"]

JointWaypoint(names, position) ==
    [k |-> "joint", joint_names |-> names, position |-> position]

StateWaypoint(names, position) ==
    [k |-> "state", joint_names |-> names, position |-> position]

CartesianWaypoint(pose) == [k |-> "cart", pose |-> pose]

isJointWaypoint(wp) == wp.k = "joint"

isCartesianWaypoint(wp) == wp.k = "cart"

isStateWaypoint(wp) == wp.k = "state"

ManipulatorInfo(manipulator) == [manipulator |-> manipulator]

\* ManipulatorInfo::getCombined: the override's fields win where it sets them
getCombined(manip_info, override) ==
    IF override.manipulator = "" THEN manip_info ELSE override

PlanInstruction(wp, type, profile, mi, description) ==
    [kind |-> "plan", waypoint |-> wp, type |-> type, profile |-> profile,
     manip_info |-> mi, description |-> description]

isLinear(pi) == pi.type = "LINEAR"

isFreespace(pi) == pi.type = "FREESPACE"

MoveInstruction(wp, type, mi, description, profile) ==
    [kind |-> "move", waypoint |-> wp, type |-> type, profile |-> profile,
     manip_info |-> mi, description |-> description]

\* an instruction that is neither a composite nor a plan instruction
OtherInstruction == [kind |-> "other"]

NoStart == [kind |-> "null"]

CompositeInstruction(profile, order, mi, children) ==
    [kind |-> "composite", profile |-> profile, order |-> order,
     manip_info |-> mi, start |-> NoStart, children |-> children]

isCompositeInstruction(i) == i.kind = "composite"

isPlanInstruction(i) == i.kind = "plan"

hasStartInstruction(c) == c.start.kind # "null"

\* CompositeInstruction::push_back
PushBack(c, i) == [c EXCEPT !.children = Append(@, i)]

-----------------------------------------------------------------------------
(* The environment and the kinematics provider of the request *)

DEFAULT_PROFILE_KEY == "DEFAULT"

\* EnvState::joints: the current value of every joint of the environment
EnvJoints == [a |-> 1, b |-> 2, c |-> 5]

\* EnvState::getJointValues: the values of the named joints, in the order named
getJointValues(env_state, names) ==
    [i \in 1..Len(names) |-> env_state[names[i]]]

\* the joint names of the forward solver of a manipulator
FwdJointNames(manipulator) == <<"b", "a">>

\* the joint names of the inverse solver: the chain "m2" orders them
\* otherwise, the chain "m3" solves for another joint
InvJointNames(manipulator) ==
    IF manipulator = "m2" THEN <<"a", "b">>
    ELSE IF manipulator = "m3" THEN <<"b", "c">>
    ELSE <<"b", "a">>

\* a comparison of the two name lists that ignores their order
SameJointNames_AnyOrder(manipulator) ==
    {InvJointNames(manipulator)[i] : i \in 1..Len(InvJointNames(manipulator))}
        = {FwdJointNames(manipulator)[i] : i \in 1..Len(FwdJointNames(manipulator))}

\* inv_kin->getJointNames() != fwd_kin->getJointNames(), negated
SameJointNames(manipulator) ==
    InvJointNames(manipulator) = FwdJointNames(manipulator)

\* link_transforms.at(base link) and findTCP(mi)
WorldToBase == [t |-> 1, r |-> 0]

Tcp == [t |-> 0, r |-> 1]

Compose(p, q) == [t |-> p.t + q.t, r |-> p.r + q.r]

Inverse(p) == [t |-> -p.t, r |-> -p.r]

\* ForwardKinematics::calcFwdKin on joint values given in solver order
CalcFwdKin(q) == [t |-> q[1] + q[2], r |-> q[1] - q[2]]

\* the joint vectors an inverse-kinematics call can return
IKVals == {<<2, 1>>, <<5, 5>>}

\* what calcInvKin can answer: no solution, or up to MaxSolutions of them
IKOutcomes == SeqsUpTo(IKVals, MaxSolutions)

\* what it answers while a program is planned: none, one or two solutions
IKAnswers == { <<>>, <<<<2, 1>>>>, <<<<5, 5>>, <<2, 1>>>> }

-----------------------------------------------------------------------------
(* The segment interpolator and the pieces the LVS generators share *)

\* interpolate(start, stop, steps): steps + 1 columns, the first is start and
\* the last is stop; column i (from 0) is start + (i / steps) * (stop - start)
interpolate(start, stop, steps) ==
    [c \in 1..(steps + 1) |->
        Normalize([i \in DOMAIN start |->
                      start[i] * (steps - (c - 1)) + stop[i] * (c - 1)],
                  steps)]

\* a count that grows with the limit
AxisSteps_Times(dist, longest_valid_segment_length) ==
    (dist * longest_valid_segment_length) + 1

\* int(dist / longest_valid_segment_length) + 1 for a translation or rotation
AxisSteps(dist, longest_valid_segment_length) ==
    (dist \div longest_valid_segment_length) + 1

\* the joint count without the step added to the quotient
StateSteps_Quotient(a, b, state_longest_valid_segment_length) ==
    FloorNormDiv(Dist2(a, b), state_longest_valid_segment_length)

\* int((a - b).norm() / state_longest_valid_segment_length) + 1
StateSteps(a, b, state_longest_valid_segment_length) ==
    FloorNormDiv(Dist2(a, b), state_longest_valid_segment_length) + 1

\* (p2.translation() - p1.translation()).norm()
TransDist(p1, p2) == Abs(p2.t - p1.t)

\* Quaterniond(p1.linear()).angularDistance(Quaterniond(p2.linear()))
RotDist(p1, p2) == Abs(p2.r - p1.r)

\* the translation count alone
CartesianSteps_TransOnly(p1, p2, prm) ==
    AxisSteps(TransDist(p1, p2), prm.translation_longest_valid_segment_length)

\* std::max(trans_steps, rot_steps) of the two poses
CartesianSteps(p1, p2, prm) ==
    Max(AxisSteps(TransDist(p1, p2), prm.translation_longest_valid_segment_length),
        AxisSteps(RotDist(p1, p2), prm.rotation_longest_valid_segment_length))

\* no loop: the first solution
ClosestSolution_First(solutions, reference) == solutions[1]

\* the loop "if (d < dist) { final = solution; dist = d; }" over the solutions
\* of one endpoint, started with final = solution 0 and dist = max double
ClosestSolution(solutions, reference) ==
    LET RECURSIVE Scan(_, _, _)
        Scan(i, final, dist) ==
            IF i > Len(solutions) THEN final
            ELSE LET d == Dist2(solutions[i], reference)
                 IN  IF dist = -1 \/ d < dist
                     THEN Scan(i + 1, solutions[i], d)
                     ELSE Scan(i + 1, final, dist)
    IN  Scan(1, solutions[1], -1)

\* no loops: the first solution of each endpoint
ClosestPair_First(j1, j2) == <<j1[1], j2[1]>>

\* the double loop over the solutions of both endpoints
ClosestPair(j1, j2) ==
    LET RECURSIVE Scan(_, _, _, _)
        Scan(i, j, final, dist) ==
            IF i > Len(j1) THEN final
            ELSE IF j > Len(j2) THEN Scan(i + 1, 1, final, dist)
            ELSE LET d == Dist2(j2[j], j1[i])
                 IN  IF dist = -1 \/ d < dist
                     THEN Scan(i, j + 1, <<j1[i], j2[j]>>, d)
                     ELSE Scan(i, j + 1, final, dist)
    IN  Scan(1, 1, <<j1[1], j2[1]>>, -1)

\* the default-constructed composite a generator fills
EmptyComposite ==
    CompositeInstruction(DEFAULT_PROFILE_KEY, "ORDERED", ManipulatorInfo(""), <<>>)

\* a generator left by an exception
Thrown(what, fk_calls, ik_calls) ==
    [thrown |-> TRUE, what |-> what, composite |-> EmptyComposite, steps |-> 0,
     fk_calls |-> fk_calls, ik_calls |-> ik_calls, j1 |-> <<>>, j2 |-> <<>>]

\* a variant whose return fails when an endpoint pose has no joint solution
Returned_ThrowsUnresolved(composite, steps, fk_calls, ik_calls, j1, j2) ==
    IF j1 = <<>> \/ j2 = <<>>
    THEN Thrown("failed to find inverse kinematics solution!", fk_calls, ik_calls)
    ELSE [thrown |-> FALSE, what |-> "", composite |-> composite, steps |-> steps,
          fk_calls |-> fk_calls, ik_calls |-> ik_calls, j1 |-> j1, j2 |-> j2]

\* j1 and j2 are the joint states the function holds for the two endpoints
\* when it returns (<<>> for a pose the inverse solver found no solution for)
Returned(composite, steps, fk_calls, ik_calls, j1, j2) ==
    [thrown |-> FALSE, what |-> "", composite |-> composite, steps |-> steps,
     fk_calls |-> fk_calls, ik_calls |-> ik_calls, j1 |-> j1, j2 |-> j2]

\* "Get move type base on base instruction type"
MoveTypeKnown(base_instruction) ==
    isLinear(base_instruction) \/ isFreespace(base_instruction)

MoveTypeOf(base_instruction) ==
    IF isLinear(base_instruction) THEN "LINEAR" ELSE "FREESPACE"

\* a move built without the three setters that copy the base's metadata
EmittedMove_Bare(names, position, base_instruction) ==
    MoveInstruction(StateWaypoint(names, position), MoveTypeOf(base_instruction),
                    ManipulatorInfo(""), "", "")

\* one emitted MoveInstruction with the metadata of the base instruction
EmittedMove(names, position, base_instruction) ==
    MoveInstruction(StateWaypoint(names, position), MoveTypeOf(base_instruction),
                    base_instruction.manip_info, base_instruction.description,
                    base_instruction.profile)

\* the loop started at column 0: the start state is emitted as well
EmitStates_FromStart(states, names, base_instruction) ==
    [EmptyComposite EXCEPT !.children =
        [i \in 1..Len(states) |-> EmittedMove(names, states[i], base_instruction)]]

\* "for (long i = 1; i < states.cols(); ++i)": every column but the first
EmitStates(states, names, base_instruction) ==
    [EmptyComposite EXCEPT !.children =
        [i \in 1..(Len(states) - 1) |->
            EmittedMove(names, states[i + 1], base_instruction)]]

\* "for (long i = 1; i < steps; ++i)": the same state waypoint again and again
EmitRepeated(position, steps, names, base_instruction) ==
    [EmptyComposite EXCEPT !.children =
        [i \in 1..(steps - 1) |->
            EmittedMove(names, Rat(position), base_instruction)]]

-----------------------------------------------------------------------------
(* LVSInterpolateStateWaypoint, one operator per overload.  prm holds the  *)
(* three longest-valid-segment lengths and min_steps; ext holds what the   *)
(* kinematics provider answers during the call: fk (calcFwdKin succeeds),  *)
(* ik1 and ik2 (the solutions calcInvKin returns for the start and the end *)
(* pose; none when it returns false).                                      *)

FkFailed == "LVSInterpolateStateWaypoint: failed to find forward kinematics solution!"

NamesDiffer == "Forward and Inverse Kinematic objects joints are not ordered the same!"

BadMoveType == "LVS Interpolation: Unsupported Move Instruction Type!"

NotImplemented == "Not implemented, PR's are welcome!"

\* (JointWaypoint, JointWaypoint)
LVSInterpolateStateWaypointJJ(start, end, base_instruction, manip_info, prm, ext) ==
    LET mi == getCombined(manip_info, base_instruction.manip_info)
        names == FwdJointNames(mi.manipulator)
        p1 == Compose(Compose(WorldToBase, CalcFwdKin(start.position)), Tcp)
        p2 == Compose(Compose(WorldToBase, CalcFwdKin(end.position)), Tcp)
        joint_steps == StateSteps(end.position, start.position,
                                  prm.state_longest_valid_segment_length)
        steps == Max(Max(CartesianSteps(p1, p2, prm), joint_steps), prm.min_steps)
        states == interpolate(start.position, end.position, steps)
    IN  IF ~ext.fk THEN Thrown(FkFailed, 1, 0)
        ELSE IF ~MoveTypeKnown(base_instruction) THEN Thrown(BadMoveType, 2, 0)
        ELSE Returned(EmitStates(states, names, base_instruction), steps, 2, 0,
                      start.position, end.position)

\* (JointWaypoint, CartesianWaypoint)
LVSInterpolateStateWaypointJC(start, end, base_instruction, manip_info, prm, ext) ==
    LET mi == getCombined(manip_info, base_instruction.manip_info)
        names == FwdJointNames(mi.manipulator)
        j1 == start.position
        p2 == Compose(Inverse(WorldToBase), Compose(end.pose, Inverse(Tcp)))
        p1 == CalcFwdKin(j1)
        j2 == ext.ik2
        j2_found == j2 # <<>>
        j2_final == ClosestSolution(j2, j1)
        steps0 == CartesianSteps(p1, p2, prm)
        steps1 == IF j2_found
                  THEN Max(steps0, StateSteps(j2_final, j1,
                                              prm.state_longest_valid_segment_length))
                  ELSE steps0
        steps == Max(steps1, prm.min_steps)
    IN  IF ~SameJointNames(mi.manipulator) THEN Thrown(NamesDiffer, 0, 0)
        ELSE IF ~ext.fk THEN Thrown(FkFailed, 1, 0)
        ELSE IF ~MoveTypeKnown(base_instruction) THEN Thrown(BadMoveType, 1, 1)
        ELSE IF j2_found
        THEN Returned(EmitStates(interpolate(j1, j2_final, steps), names,
                                 base_instruction), steps, 1, 1, j1, j2_final)
        ELSE Returned(EmitRepeated(j1, steps, names, base_instruction), steps, 1, 1,
                      j1, <<>>)

\* (CartesianWaypoint, JointWaypoint)
LVSInterpolateStateWaypointCJ(start, end, base_instruction, manip_info, prm, ext) ==
    LET mi == getCombined(manip_info, base_instruction.manip_info)
        names == FwdJointNames(mi.manipulator)
        p1 == Compose(Inverse(WorldToBase), Compose(start.pose, Inverse(Tcp)))
        j2 == end.position
        p2 == CalcFwdKin(j2)
        j1 == ext.ik1
        j1_found == j1 # <<>>
        j1_final == ClosestSolution(j1, j2)
        steps0 == CartesianSteps(p1, p2, prm)
        steps1 == IF j1_found
                  THEN Max(steps0, StateSteps(j1_final, j2,
                                              prm.state_longest_valid_segment_length))
                  ELSE steps0
        steps == Max(steps1, prm.min_steps)
    IN  IF ~SameJointNames(mi.manipulator) THEN Thrown(NamesDiffer, 0, 0)
        ELSE IF ~ext.fk THEN Thrown(FkFailed, 1, 0)
        ELSE IF ~MoveTypeKnown(base_instruction) THEN Thrown(BadMoveType, 1, 1)
        ELSE IF j1_found
        THEN Returned(EmitStates(interpolate(j1_final, j2, steps), names,
                                 base_instruction), steps, 1, 1, j1_final, j2)
        ELSE Returned(EmitRepeated(j2, steps, names, base_instruction), steps, 1, 1,
                      <<>>, j2)

\* (CartesianWaypoint, CartesianWaypoint); seed is the environment's current
\* joint values for the inverse solver's joint names
LVSInterpolateStateWaypointCC(start, end, base_instruction, manip_info, prm, ext, env_state) ==
    LET mi == getCombined(manip_info, base_instruction.manip_info)
        names == InvJointNames(mi.manipulator)
        seed == getJointValues(env_state, names)
        p1 == Compose(Inverse(WorldToBase), Compose(start.pose, Inverse(Tcp)))
        p2 == Compose(Inverse(WorldToBase), Compose(end.pose, Inverse(Tcp)))
        j1 == ext.ik1
        j2 == ext.ik2
        found_j1 == j1 # <<>>
        found_j2 == j2 # <<>>
        pair == ClosestPair(j1, j2)
        steps0 == CartesianSteps(p1, p2, prm)
        steps1 == IF found_j1 /\ found_j2
                  THEN Max(steps0, StateSteps(pair[1], pair[2],
                                              prm.state_longest_valid_segment_length))
                  ELSE steps0
        steps == Max(steps1, prm.min_steps)
    IN  IF ~SameJointNames(mi.manipulator) THEN Thrown(NamesDiffer, 0, 0)
        ELSE IF ~MoveTypeKnown(base_instruction) THEN Thrown(BadMoveType, 0, 2)
        ELSE IF found_j1 /\ found_j2
        THEN Returned(EmitStates(interpolate(pair[1], pair[2], steps), names,
                                 base_instruction), steps, 0, 2, pair[1], pair[2])
        ELSE IF found_j1
        THEN Returned(EmitRepeated(ClosestSolution(j1, seed), steps, names,
                                   base_instruction), steps, 0, 2,
                      ClosestSolution(j1, seed), <<>>)
        ELSE IF found_j2
        THEN Returned(EmitRepeated(ClosestSolution(j2, seed), steps, names,
                                   base_instruction), steps, 0, 2,
                      <<>>, ClosestSolution(j2, seed))
        ELSE Returned(EmitRepeated(seed, steps, names, base_instruction), steps, 0, 2,
                      <<>>, <<>>)

\* the overloads without the throw in their first statement
LVSInterpolateCartStateWaypoint_Implemented(start, end, base_instruction, manip_info, prm, ext) ==
    IF isJointWaypoint(start) /\ isJointWaypoint(end)
    THEN LVSInterpolateStateWaypointJJ(start, end, base_instruction, manip_info,
                                       prm, [ext EXCEPT !.fk = TRUE])
    ELSE Returned(EmptyComposite, Max(1, prm.min_steps), 1, 1, <<>>, <<>>)

\* LVSInterpolateCartStateWaypoint, all four overloads: the throw comes first
LVSInterpolateCartStateWaypoint(start, end, base_instruction, manip_info, prm, ext) ==
    Thrown(NotImplemented, 0, 0)

-----------------------------------------------------------------------------
(* Profiles: a SimplePlannerPlanProfile is eight strategies, one per pair  *)
(* of endpoint types (cartesian or joint) and motion type.                 *)

\* SimplePlannerDefaultLVSPlanProfile: every strategy is the overload of
\* LVSInterpolateStateWaypoint for its pair, with the profile's parameters
LVSPlanProfile(state_lvs, translation_lvs, rotation_lvs, min_steps) ==
    [kind |-> "lvs",
     state_longest_valid_segment_length |-> state_lvs,
     translation_longest_valid_segment_length |-> translation_lvs,
     rotation_longest_valid_segment_length |-> rotation_lvs,
     min_steps |-> min_steps]

SimplePlannerDefaultLVSPlanProfile == LVSPlanProfile(2, 2, 2, 1)

\* a profile whose strategies are the LVSInterpolateCartStateWaypoint overloads
LVSCartPlanProfile == [SimplePlannerDefaultLVSPlanProfile EXCEPT !.kind = "lvs_cart"]

\* a registration that holds no profile (a null shared pointer)
NullProfile == [kind |-> "nullptr"]

\* the strategy `slot` of `profile` applied to a segment
CallStrategy(profile, slot, start, end, base_instruction, manip_info, ext, env_state) ==
    IF profile.kind = "lvs_cart"
    THEN LVSInterpolateCartStateWaypoint(start, end, base_instruction, manip_info,
                                         profile, ext)
    ELSE IF slot.pair = "joint_joint"
    THEN LVSInterpolateStateWaypointJJ(start, end, base_instruction, manip_info,
                                       profile, ext)
    ELSE IF slot.pair = "joint_cart"
    THEN LVSInterpolateStateWaypointJC(start, end, base_instruction, manip_info,
                                       profile, ext)
    ELSE IF slot.pair = "cart_joint"
    THEN LVSInterpolateStateWaypointCJ(start, end, base_instruction, manip_info,
                                       profile, ext)
    ELSE LVSInterpolateStateWaypointCC(start, end, base_instruction, manip_info,
                                       profile, ext, env_state)

\* getProfileString: the instruction's profile name, the default key when it
\* is empty, replaced by the planner's entry of the remapping table if any
getProfileString(profile, planner_name, profile_remapping) ==
    LET results == IF profile = "" THEN DEFAULT_PROFILE_KEY ELSE profile
    IN  IF /\ planner_name \in DOMAIN profile_remapping
           /\ profile \in DOMAIN profile_remapping[planner_name]
        THEN profile_remapping[planner_name][profile]
        ELSE results

\* getProfile: the registration under the name, the given default without one
getProfile(profile, profile_map, default_profile) ==
    IF profile \in DOMAIN profile_map THEN profile_map[profile] ELSE default_profile

-----------------------------------------------------------------------------
(* SimpleMotionPlanner *)

SolutionFound == "SolutionFound"

ErrorInvalidInput == "ErrorInvalidInput"

FailedToFindValidSolution == "FailedToFindValidSolution"

\* SimpleMotionPlanner::SimpleMotionPlanner(name)
\* the name a planner constructed without one has
DefaultName == "SimpleMotionPlanner"

NewPlanner(name) ==
    [name_ |-> name,
     plan_profiles |-> [p \in {DEFAULT_PROFILE_KEY} |-> SimplePlannerDefaultLVSPlanProfile]]

\* checkUserInput without the test for an empty program
checkUserInput_EnvOnly(req) ==
    IF req.env = "nullptr" THEN FALSE
    ELSE TRUE

\* SimpleMotionPlanner::checkUserInput
checkUserInput(req) ==
    IF req.env = "nullptr" THEN FALSE
    ELSE IF req.instructions.children = <<>> THEN FALSE
    ELSE TRUE

\* checkJointPositionFormat(joint_names, waypoint): the waypoint names the
\* joints as the solver does, one position each
checkJointPositionFormat(joint_names, wp) ==
    /\ Len(wp.position) = Len(joint_names)
    /\ wp.joint_names = joint_names

\* getStartInstruction without setManipulatorInfo on the seed
getStartInstruction_SeedManipulator(req, fwd_names) ==
    LET seed == MoveInstruction(NullWaypoint, "START", ManipulatorInfo(""), "", DEFAULT_PROFILE_KEY)
        current == StateWaypoint(fwd_names, getJointValues(req.env_state, fwd_names))
        si == req.instructions.start
        wp == si.waypoint
        asserted == /\ isPlanInstruction(si)
                    /\ si.type = "START"
                    /\ (isJointWaypoint(wp) \/ isStateWaypoint(wp)) =>
                           checkJointPositionFormat(fwd_names, wp)
    IN  IF hasStartInstruction(req.instructions)
        THEN IF isJointWaypoint(wp)
             THEN [thrown |-> FALSE, asserted |-> asserted,
                   instruction |-> [seed EXCEPT
                       !.waypoint = StateWaypoint(wp.joint_names, wp.position)]]
             ELSE IF isCartesianWaypoint(wp)
             THEN [thrown |-> FALSE, asserted |-> asserted,
                   instruction |-> [seed EXCEPT !.waypoint = current]]
             ELSE IF isStateWaypoint(wp)
             THEN [thrown |-> FALSE, asserted |-> asserted,
                   instruction |-> [seed EXCEPT !.waypoint = wp]]
             ELSE [thrown |-> TRUE, asserted |-> asserted, instruction |-> seed]
        ELSE [thrown |-> FALSE, asserted |-> TRUE,
              instruction |-> [seed EXCEPT !.waypoint = current]]

\* getStartInstruction reading the current values in the environment's joint
\* order instead of the order of the solver's names
getStartInstruction_EnvOrder(req, fwd_names) ==
    LET seed == MoveInstruction(NullWaypoint, "START", ManipulatorInfo(""), "", DEFAULT_PROFILE_KEY)
        current == StateWaypoint(fwd_names, getJointValues(req.env_state, <<"a", "b">>))
        si == req.instructions.start
        wp == si.waypoint
        asserted == /\ isPlanInstruction(si)
                    /\ si.type = "START"
                    /\ (isJointWaypoint(wp) \/ isStateWaypoint(wp)) =>
                           checkJointPositionFormat(fwd_names, wp)
    IN  IF hasStartInstruction(req.instructions)
        THEN IF isJointWaypoint(wp)
             THEN [thrown |-> FALSE, asserted |-> asserted,
                   instruction |-> [seed EXCEPT
                       !.waypoint = StateWaypoint(wp.joint_names, wp.position),
                       !.manip_info = si.manip_info]]
             ELSE IF isCartesianWaypoint(wp)
             THEN [thrown |-> FALSE, asserted |-> asserted,
                   instruction |-> [seed EXCEPT !.waypoint = current,
                                                !.manip_info = si.manip_info]]
             ELSE IF isStateWaypoint(wp)
             THEN [thrown |-> FALSE, asserted |-> asserted,
                   instruction |-> [seed EXCEPT !.waypoint = wp,
                                                !.manip_info = si.manip_info]]
             ELSE [thrown |-> TRUE, asserted |-> asserted, instruction |-> seed]
        ELSE [thrown |-> FALSE, asserted |-> TRUE,
              instruction |-> [seed EXCEPT !.waypoint = current]]

\* SimpleMotionPlanner::getStartInstruction; fwd_names are the joint names of
\* the forward solver of the root composite's manipulator
getStartInstruction(req, fwd_names) ==
    LET seed == MoveInstruction(NullWaypoint, "START", ManipulatorInfo(""), "", DEFAULT_PROFILE_KEY)
        current == StateWaypoint(fwd_names, getJointValues(req.env_state, fwd_names))
        si == req.instructions.start
        wp == si.waypoint
        asserted == /\ isPlanInstruction(si)
                    /\ si.type = "START"
                    /\ (isJointWaypoint(wp) \/ isStateWaypoint(wp)) =>
                           checkJointPositionFormat(fwd_names, wp)
    IN  IF hasStartInstruction(req.instructions)
        THEN IF isJointWaypoint(wp)
             THEN [thrown |-> FALSE, asserted |-> asserted,
                   instruction |-> [seed EXCEPT
                       !.waypoint = StateWaypoint(wp.joint_names, wp.position),
                       !.manip_info = si.manip_info]]
             ELSE IF isCartesianWaypoint(wp)
             THEN [thrown |-> FALSE, asserted |-> asserted,
                   instruction |-> [seed EXCEPT !.waypoint = current,
                                                !.manip_info = si.manip_info]]
             ELSE IF isStateWaypoint(wp)
             THEN [thrown |-> FALSE, asserted |-> asserted,
                   instruction |-> [seed EXCEPT !.waypoint = wp,
                                                !.manip_info = si.manip_info]]
             ELSE [thrown |-> TRUE, asserted |-> asserted, instruction |-> seed]
        ELSE [thrown |-> FALSE, asserted |-> TRUE,
              instruction |-> [seed EXCEPT !.waypoint = current]]

\* JointWaypoint pre_jwp(pre_swp->joint_names, pre_swp->position)
AsJointWaypoint(swp) == JointWaypoint(swp.joint_names, swp.position)

UnsupportedWaypoints ==
    "SimpleMotionPlanner::processCompositeInstruction: Unsupported waypoints provided!"

\* the chain without its last branch, state waypoint to state waypoint
SelectStrategy_NoStateToState(wp1, wp2, motion) ==
    LET is_cwp1 == isCartesianWaypoint(wp1)
        is_jwp1 == isJointWaypoint(wp1)
        is_swp1 == isStateWaypoint(wp1)
        is_cwp2 == isCartesianWaypoint(wp2)
        is_jwp2 == isJointWaypoint(wp2)
        is_swp2 == isStateWaypoint(wp2)
        Call(pair, a, b) ==
            [thrown |-> FALSE, slot |-> [pair |-> pair, motion |-> motion],
             start |-> a, end |-> b]
    IN  IF is_cwp1 /\ is_cwp2 THEN Call("cart_cart", wp1, wp2)
        ELSE IF is_cwp1 /\ is_jwp2 THEN Call("cart_joint", wp1, wp2)
        ELSE IF is_jwp1 /\ is_cwp2 THEN Call("joint_cart", wp1, wp2)
        ELSE IF is_jwp1 /\ is_jwp2 THEN Call("joint_joint", wp1, wp2)
        ELSE IF is_swp1 /\ is_cwp2 THEN Call("joint_cart", AsJointWaypoint(wp1), wp2)
        ELSE IF is_swp1 /\ is_jwp2 THEN Call("joint_joint", AsJointWaypoint(wp1), wp2)
        ELSE IF is_cwp1 /\ is_swp2 THEN Call("cart_joint", wp1, AsJointWaypoint(wp2))
        ELSE IF is_jwp1 /\ is_swp2 THEN Call("joint_joint", wp1, AsJointWaypoint(wp2))
        ELSE [thrown |-> TRUE, what |-> UnsupportedWaypoints]

\* the if / else-if chain over the types of the two waypoints, the same for a
\* linear and a freespace instruction: which strategy is called, and on what
SelectStrategy(wp1, wp2, motion) ==
    LET is_cwp1 == isCartesianWaypoint(wp1)
        is_jwp1 == isJointWaypoint(wp1)
        is_swp1 == isStateWaypoint(wp1)
        is_cwp2 == isCartesianWaypoint(wp2)
        is_jwp2 == isJointWaypoint(wp2)
        is_swp2 == isStateWaypoint(wp2)
        Call(pair, a, b) ==
            [thrown |-> FALSE, slot |-> [pair |-> pair, motion |-> motion],
             start |-> a, end |-> b]
    IN  IF is_cwp1 /\ is_cwp2 THEN Call("cart_cart", wp1, wp2)
        ELSE IF is_cwp1 /\ is_jwp2 THEN Call("cart_joint", wp1, wp2)
        ELSE IF is_jwp1 /\ is_cwp2 THEN Call("joint_cart", wp1, wp2)
        ELSE IF is_jwp1 /\ is_jwp2 THEN Call("joint_joint", wp1, wp2)
        ELSE IF is_swp1 /\ is_cwp2 THEN Call("joint_cart", AsJointWaypoint(wp1), wp2)
        ELSE IF is_swp1 /\ is_jwp2 THEN Call("joint_joint", AsJointWaypoint(wp1), wp2)
        ELSE IF is_cwp1 /\ is_swp2 THEN Call("cart_joint", wp1, AsJointWaypoint(wp2))
        ELSE IF is_jwp1 /\ is_swp2 THEN Call("joint_joint", wp1, AsJointWaypoint(wp2))
        ELSE IF is_swp1 /\ is_swp2
        THEN Call("joint_joint", AsJointWaypoint(wp1), AsJointWaypoint(wp2))
        ELSE [thrown |-> TRUE, what |-> UnsupportedWaypoints]

\* the branch on the motion type around the two chains
Dispatch(wp1, plan_instruction) ==
    IF isLinear(plan_instruction)
    THEN SelectStrategy(wp1, plan_instruction.waypoint, "linear")
    ELSE IF isFreespace(plan_instruction)
    THEN SelectStrategy(wp1, plan_instruction.waypoint, "freespace")
    ELSE [thrown |-> TRUE, what |-> "Unsupported!"]

-----------------------------------------------------------------------------
(* The requests solve() is called with *)

SolverNames == <<"b", "a">>

\* the plan instructions a program is written with: every pair of waypoint
\* type and motion type, then a null waypoint, a START instruction in the
\* body, profiles registered with an unimplemented and with a null profile,
\* and a manipulator whose solvers disagree on the joint order
PlanLeaves ==
    { PlanInstruction(JointWaypoint(SolverNames, <<5, 1>>), "LINEAR", "", ManipulatorInfo(""), "jl"),
      PlanInstruction(JointWaypoint(SolverNames, <<2, 3>>), "FREESPACE", "", ManipulatorInfo(""), "jf"),
      PlanInstruction(CartesianWaypoint([t |-> 5, r |-> 2]), "LINEAR", "", ManipulatorInfo(""), "cl"),
      PlanInstruction(CartesianWaypoint([t |-> 8, r |-> 2]), "FREESPACE", "", ManipulatorInfo(""), "cf"),
      PlanInstruction(StateWaypoint(SolverNames, <<2, 5>>), "LINEAR", "", ManipulatorInfo(""), "sl"),
      PlanInstruction(StateWaypoint(SolverNames, <<4, 4>>), "FREESPACE", "", ManipulatorInfo(""), "sf"),
      PlanInstruction(NullWaypoint, "LINEAR", "", ManipulatorInfo(""), "null waypoint"),
      PlanInstruction(JointWaypoint(SolverNames, <<5, 1>>), "START", "", ManipulatorInfo(""), "start"),
      PlanInstruction(JointWaypoint(SolverNames, <<5, 1>>), "LINEAR", "cart", ManipulatorInfo(""), "cart"),
      PlanInstruction(CartesianWaypoint([t |-> 8, r |-> 2]), "FREESPACE", "null", ManipulatorInfo(""), "null"),
      PlanInstruction(CartesianWaypoint([t |-> 5, r |-> 2]), "LINEAR", "", ManipulatorInfo("m2"), "m2") }

\* the explicit start instructions of a program, NoStart for none; the last
\* two fail the assertions of getStartInstruction
StartInstructions ==
    { NoStart,
      PlanInstruction(JointWaypoint(SolverNames, <<0, 3>>), "START", "", ManipulatorInfo("m2"), "sj"),
      PlanInstruction(CartesianWaypoint([t |-> 5, r |-> 2]), "START", "", ManipulatorInfo("m1"), "sc"),
      PlanInstruction(CartesianWaypoint([t |-> 8, r |-> 6]), "START", "", ManipulatorInfo("m2"), "sc2"),
      PlanInstruction(StateWaypoint(SolverNames, <<4, 4>>), "START", "", ManipulatorInfo("m1"), "ss"),
      PlanInstruction(NullWaypoint, "START", "", ManipulatorInfo("m1"), "sn"),
      PlanInstruction(JointWaypoint(<<"a", "b">>, <<0, 3>>), "START", "", ManipulatorInfo("m1"), "names"),
      PlanInstruction(StateWaypoint(SolverNames, <<4, 4>>), "LINEAR", "", ManipulatorInfo("m1"), "linear") }

\* the plan instructions of the programs with nested composites
ShapeLeaves ==
    { PlanInstruction(JointWaypoint(SolverNames, <<5, 1>>), "LINEAR", "", ManipulatorInfo(""), "jl"),
      PlanInstruction(CartesianWaypoint([t |-> 8, r |-> 2]), "FREESPACE", "", ManipulatorInfo(""), "cf"),
      PlanInstruction(NullWaypoint, "LINEAR", "", ManipulatorInfo(""), "null waypoint") }

\* a nested composite: its profile, order and manipulator differ from the root's
Nested(children) ==
    CompositeInstruction("raster", "UNORDERED", ManipulatorInfo("m2"), children)

RECURSIVE NodeCount(_)
NodeCount(children) ==
    IF children = <<>> THEN 0
    ELSE 1 + NodeCount(Tail(children))
           + (IF isCompositeInstruction(Head(children))
              THEN NodeCount(Head(children).children) ELSE 0)

\* the sequences of children that hold at most n instructions in all
RECURSIVE Forests(_)
Forests(n) ==
    IF n = 0 THEN {<<>>}
    ELSE LET first == ShapeLeaves \cup {OtherInstruction}
                          \cup { Nested(f) : f \in Forests(n - 1) }
         IN  {<<>>} \cup
             UNION { { <<c>> \o rest : rest \in Forests(n - NodeCount(<<c>>)) } :
                     c \in first }

Root(children, start) ==
    [CompositeInstruction(DEFAULT_PROFILE_KEY, "ORDERED", ManipulatorInfo("m1"), children)
        EXCEPT !.start = start]

\* the programs: up to MaxNodes instructions nested in any way, every plan
\* instruction alone and every ordered pair of them, and every explicit start
\* instruction in front of every plan instruction
Programs ==
    { Root(f, NoStart) : f \in Forests(MaxNodes) }
    \cup { Root(<<l>>, NoStart) : l \in PlanLeaves }
    \cup { Root(<<l1, l2>>, NoStart) : l1 \in PlanLeaves, l2 \in PlanLeaves }
    \cup { Root(<<l>>, s) : l \in PlanLeaves, s \in StartInstructions }

NewRequest(env, instructions) ==
    [env |-> env, env_state |-> EnvJoints, instructions |-> instructions,
     plan_profile_remapping |-> <<>>]

\* the two-point scenario, one unit being 0.1 rad: a linear joint move of
\* norm 5 from the authored start, under a profile with joint limit 1 and
\* cartesian limits that do not bind
ScenarioProfile == LVSPlanProfile(1, 9, 9, 1)

ScenarioStart ==
    PlanInstruction(JointWaypoint(SolverNames, <<0, 3>>), "START", "", ManipulatorInfo("m2"), "sj")

ScenarioLeaf ==
    PlanInstruction(JointWaypoint(SolverNames, <<3, 7>>), "LINEAR", "scenario",
                    ManipulatorInfo(""), "scenario")

ScenarioProgram == Root(<<ScenarioLeaf>>, ScenarioStart)

\* plan_profile_remapping: the planner's profile "cart" renamed to a name that
\* is registered with a null profile, or to a name nobody registers
Remappings ==
    { [SimpleMotionPlanner |-> [cart |-> "null"]],
      [SimpleMotionPlanner |-> [cart |-> "unknown"]],
      [OtherPlanner |-> [cart |-> "null"]] }

Requests ==
    { NewRequest("env", p) : p \in Programs }
    \cup { NewRequest("nullptr", Root(<<l>>, NoStart)) : l \in ShapeLeaves }
    \cup { [NewRequest("env", Root(<<l>>, NoStart)) EXCEPT !.plan_profile_remapping = r] :
              l \in { x \in PlanLeaves : x.profile = "cart" }, r \in Remappings }
    \cup { NewRequest("env", ScenarioProgram) }

\* a default-constructed PlannerResponse
NewResponse == [status |-> "Unset", results |-> EmptyComposite]

-----------------------------------------------------------------------------
(* processCompositeInstruction, one activation record per composite: the   *)
(* path of the composite in the program, the index of the next child of    *)
(* the for loop, and the local composite `seed` built so far.              *)

RECURSIVE NodeAt(_, _)
NodeAt(composite, path) ==
    IF path = <<>> THEN composite
    ELSE NodeAt(composite.children[Head(path)], Tail(path))

\* a default-constructed seed, CompositeInstruction seed;
NewSeed_Default(instructions) == EmptyComposite

\* CompositeInstruction seed(getProfile(), getOrder(), getManipulatorInfo())
NewSeed(instructions) ==
    CompositeInstruction(instructions.profile, instructions.order,
                         instructions.manip_info, <<>>)

Frame(path, instructions) == [path |-> path, i |-> 1, seed |-> NewSeed(instructions)]

Top == stack[Len(stack)]

TopNode == NodeAt(request.instructions, Top.path)

LoopDone == Top.i > Len(TopNode.children)

Child == TopNode.children[Top.i]

\* the top record after seed.push_back(x) and the step of the for loop
Pushed(frame, x) == [frame EXCEPT !.seed = PushBack(@, x), !.i = @ + 1]

\* what the kinematics provider may answer during one strategy call
NoExt == [fk |-> TRUE, ik1 |-> <<>>, ik2 |-> <<>>]

ExtChoices(pair, answers) ==
    IF pair = "joint_joint" THEN { [NoExt EXCEPT !.fk = f] : f \in BOOLEAN }
    ELSE IF pair = "joint_cart"
    THEN { [NoExt EXCEPT !.fk = f, !.ik2 = s] : f \in BOOLEAN, s \in answers }
    ELSE IF pair = "cart_joint"
    THEN { [NoExt EXCEPT !.fk = f, !.ik1 = s] : f \in BOOLEAN, s \in answers }
    ELSE { [NoExt EXCEPT !.ik1 = s1, !.ik2 = s2] : s1 \in answers, s2 \in answers }

\* the lookup with getProfile's default argument left out: a null pointer
ResolveProfile_NoDefault(pl, req, plan_instruction) ==
    getProfile(getProfileString(plan_instruction.profile, pl.name_,
                                req.plan_profile_remapping),
               pl.plan_profiles, NullProfile)

\* getProfileString and getProfile for a plan instruction
ResolveProfile(pl, req, plan_instruction) ==
    getProfile(getProfileString(plan_instruction.profile, pl.name_,
                                req.plan_profile_remapping),
               pl.plan_profiles, SimplePlannerDefaultLVSPlanProfile)

\* the body of the for loop for a plan instruction, up to the strategy call:
\* the strategy to call, or the exception thrown before any is called
PlanDispatch(pl, req, wp1, plan_instruction) ==
    IF ResolveProfile(pl, req, plan_instruction) = NullProfile
    THEN [thrown |-> TRUE, what |-> "SimpleMotionPlanner: Invalid start profile"]
    ELSE Dispatch(wp1, plan_instruction)

\* the strategy call of a plan instruction that is dispatched as d
\* a walk handing the manipulator of the composite it is in to the strategy
StrategyManipulatorInfo_Enclosing(req, instructions) == instructions.manip_info

\* the last argument of every strategy call, in whichever composite
\* `instructions` the walk is: request.instructions.getManipulatorInfo()
StrategyManipulatorInfo(req, instructions) == req.instructions.manip_info

PlanCall(pl, req, instructions, d, plan_instruction, ext) ==
    CallStrategy(ResolveProfile(pl, req, plan_instruction), d.slot, d.start, d.end,
                 plan_instruction, StrategyManipulatorInfo(req, instructions), ext,
                 req.env_state)

\* the running waypoint left as it was
NextStartWaypoint_Stale(plan_instruction, step) == start_waypoint

\* start_waypoint = plan_instruction->getWaypoint(), after the strategy returned
NextStartWaypoint(plan_instruction, step) == plan_instruction.waypoint

\* the entry of the call log for that call
CallRecord(req, instructions, d, wp1, plan_instruction, r) ==
    [slot |-> d.slot, start |-> d.start, end |-> d.end,
     manip_info |-> StrategyManipulatorInfo(req, instructions),
     from |-> wp1, leaf |-> plan_instruction,
     ik_calls |-> r.ik_calls, j1 |-> r.j1, j2 |-> r.j2,
     thrown |-> r.thrown, steps |-> r.steps, emitted |-> Len(r.composite.children)]

-----------------------------------------------------------------------------
(* Actions *)

Init ==
    /\ planner \in {NewPlanner(DefaultName)}
    /\ request = [env |-> "nullptr", env_state |-> EnvJoints,
                  instructions |-> EmptyComposite, plan_profile_remapping |-> <<>>]
    /\ response = NewResponse
    /\ pc = "idle"
    /\ stack = <<>>
    /\ start_waypoint = NullWaypoint
    /\ start_instruction = MoveInstruction(NullWaypoint, "START", ManipulatorInfo(""), "",
                                           DEFAULT_PROFILE_KEY)
    /\ outcome = "none"
    /\ returned = "none"
    /\ calls = <<>>
    /\ kin = [fwd_lookups |-> 0, fwd_manipulator |-> "", fk_calls |-> 0, ik_calls |-> 0]
    /\ build = "any"
    /\ error_what = ""
    /\ lvs = [state |-> "idle"]
    /\ life = [op |-> "none"]

\* the user's registrations, made before planning: plan_profiles[key] = profile
Registrations ==
    { <<"cart", LVSCartPlanProfile>>, <<"null", NullProfile>>,
      <<"scenario", ScenarioProfile>> }

RegisterProfile ==
    /\ pc = "idle"
    /\ \E reg \in Registrations :
          /\ reg[1] \notin DOMAIN planner.plan_profiles
          /\ planner' = [planner EXCEPT !.plan_profiles =
                            [k \in DOMAIN @ \cup {reg[1]} |->
                                IF k = reg[1] THEN reg[2] ELSE @[k]]]
    /\ UNCHANGED <<request, response, pc, stack, start_waypoint, start_instruction,
                   outcome, returned, calls, kin, build, error_what, lvs, life>>

\* solve(), from its entry to the call of processCompositeInstruction
SolveBegin ==
    /\ pc = "idle"
    /\ \E req \in Requests :
          /\ request' = req
          /\ IF ~checkUserInput(req)
             THEN /\ response' = [response EXCEPT !.status = ErrorInvalidInput]
                  /\ returned' = ErrorInvalidInput
                  /\ outcome' = "returned"
                  /\ pc' = "done"
                  /\ UNCHANGED <<stack, start_waypoint, start_instruction, kin, build>>
             ELSE LET manipulator == req.instructions.manip_info.manipulator
                      fwd_names == FwdJointNames(manipulator)
                      si == getStartInstruction(req, fwd_names)
                  IN  /\ kin' = [kin EXCEPT !.fwd_lookups = @ + 1,
                                            !.fwd_manipulator = manipulator]
                      /\ \/ \* a build with assertions stops at the failed assert
                            /\ ~si.asserted
                            /\ build = "any"
                            /\ outcome' = "aborted"
                            /\ pc' = "done"
                            /\ UNCHANGED <<response, returned, stack, start_waypoint,
                                           start_instruction, build>>
                         \/ /\ build' = IF si.asserted THEN build ELSE "release"
                            /\ IF si.thrown
                               THEN /\ outcome' = "thrown"
                                    /\ pc' = "done"
                                    /\ UNCHANGED <<response, returned, stack,
                                                   start_waypoint, start_instruction>>
                               ELSE /\ start_instruction' = si.instruction
                                    /\ start_waypoint' = si.instruction.waypoint
                                    /\ stack' = <<Frame(<<>>, req.instructions)>>
                                    /\ pc' = "process"
                                    /\ UNCHANGED <<response, returned, outcome>>
    /\ UNCHANGED <<planner, calls, error_what, lvs, life>>

\* the for loop reaches a nested composite: the recursive call
EnterComposite ==
    /\ pc = "process"
    /\ ~LoopDone
    /\ isCompositeInstruction(Child)
    /\ stack' = Append(stack, Frame(Append(Top.path, Top.i), Child))
    /\ UNCHANGED <<planner, request, response, pc, start_waypoint, start_instruction,
                   outcome, returned, calls, kin, build, error_what, lvs, life>>

\* a nested call returns its seed, which the caller pushes back
ReturnComposite ==
    /\ pc = "process"
    /\ LoopDone
    /\ Len(stack) > 1
    /\ stack' = [i \in 1..(Len(stack) - 1) |->
                    IF i = Len(stack) - 1 THEN Pushed(stack[i], Top.seed) ELSE stack[i]]
    /\ UNCHANGED <<planner, request, response, pc, start_waypoint, start_instruction,
                   outcome, returned, calls, kin, build, error_what, lvs, life>>

\* the for loop reaches an instruction that is neither composite nor plan
\* the loop stepping over such a child without the push_back
CopyInstruction_Dropped ==
    /\ pc = "process"
    /\ ~LoopDone
    /\ ~isCompositeInstruction(Child)
    /\ ~isPlanInstruction(Child)
    /\ stack' = [stack EXCEPT ![Len(stack)].i = @ + 1]
    /\ UNCHANGED <<planner, request, response, pc, start_waypoint, start_instruction,
                   outcome, returned, calls, kin, build, error_what, lvs, life>>

CopyInstruction ==
    /\ pc = "process"
    /\ ~LoopDone
    /\ ~isCompositeInstruction(Child)
    /\ ~isPlanInstruction(Child)
    /\ stack' = [stack EXCEPT ![Len(stack)] = Pushed(@, Child)]
    /\ UNCHANGED <<planner, request, response, pc, start_waypoint, start_instruction,
                   outcome, returned, calls, kin, build, error_what, lvs, life>>

\* a handler that hands out what was built of the seed before the failure
Catch_PartialSeed(what) ==
    /\ response' = [status |-> ErrorInvalidInput, results |-> stack[1].seed]
    /\ returned' = ErrorInvalidInput
    /\ outcome' = "returned"
    /\ pc' = "done"
    /\ stack' = <<>>
    /\ error_what' = what

\* the catch block of solve(): the exception unwinds every activation record
Catch(what) ==
    /\ response' = [response EXCEPT !.status = ErrorInvalidInput]
    /\ returned' = ErrorInvalidInput
    /\ outcome' = "returned"
    /\ pc' = "done"
    /\ stack' = <<>>
    /\ error_what' = what

\* the for loop reaches a plan instruction
ProcessPlanInstruction ==
    /\ pc = "process"
    /\ ~LoopDone
    /\ isPlanInstruction(Child)
    /\ LET asserted == /\ start_waypoint.k \in {"cart", "joint", "state"}
                       /\ Child.waypoint.k \in {"cart", "joint", "state"}
       IN
       \/ \* a build with assertions stops at the failed assert
          /\ ~asserted
          /\ build = "any"
          /\ outcome' = "aborted"
          /\ pc' = "done"
          /\ UNCHANGED <<response, returned, stack, start_waypoint, calls, kin, build,
                         error_what>>
       \/ /\ build' = IF asserted THEN build ELSE "release"
          /\ LET d == PlanDispatch(planner, request, start_waypoint, Child)
             IN  IF d.thrown
                 THEN /\ Catch(d.what)
                      /\ UNCHANGED <<start_waypoint, calls, kin>>
                 ELSE \E ext \in ExtChoices(d.slot.pair, IKAnswers) :
                        LET r == PlanCall(planner, request, TopNode, d, Child, ext)
                        IN  /\ calls' = Append(calls, CallRecord(request, TopNode, d,
                                                   start_waypoint, Child, r))
                            /\ kin' = [kin EXCEPT !.fk_calls = @ + r.fk_calls,
                                                  !.ik_calls = @ + r.ik_calls]
                            /\ IF r.thrown
                               THEN /\ Catch(r.what)
                                    /\ UNCHANGED start_waypoint
                               ELSE /\ stack' = [stack EXCEPT ![Len(stack)] =
                                                    Pushed(@, r.composite)]
                                    /\ start_waypoint' = NextStartWaypoint(Child, r.composite)
                                    /\ UNCHANGED <<response, returned, outcome, pc,
                                                   error_what>>
    /\ UNCHANGED <<planner, request, start_instruction, lvs, life>>

\* solve() returning the seed without seed.setStartInstruction(start_instruction)
SolveFinish_NoStartInstruction ==
    /\ pc = "process"
    /\ LoopDone
    /\ Len(stack) = 1
    /\ response' = [results |-> Top.seed, status |-> SolutionFound]
    /\ returned' = SolutionFound
    /\ outcome' = "returned"
    /\ pc' = "done"
    /\ stack' = <<>>
    /\ UNCHANGED <<planner, request, start_waypoint, start_instruction, calls, kin,
                   build, error_what, lvs, life>>

\* solve(), after processCompositeInstruction returned the seed
\* a solve() that leaves a trace in the planner: the key of the profile it
\* looked up last is inserted into plan_profiles, as std::map::operator[] does
SolveFinish_InsertsLookup ==
    /\ pc = "process"
    /\ LoopDone
    /\ Len(stack) = 1
    /\ response' = [results |-> [Top.seed EXCEPT !.start = start_instruction],
                    status |-> SolutionFound]
    /\ returned' = SolutionFound
    /\ outcome' = "returned"
    /\ pc' = "done"
    /\ stack' = <<>>
    /\ planner' = [planner EXCEPT !.plan_profiles =
                      [k \in DOMAIN @ \cup {"raster"} |->
                          IF k \in DOMAIN @ THEN @[k] ELSE NullProfile]]
    /\ UNCHANGED <<request, start_waypoint, start_instruction, calls, kin,
                   build, error_what, lvs, life>>

SolveFinish ==
    /\ pc = "process"
    /\ LoopDone
    /\ Len(stack) = 1
    /\ response' = [results |-> [Top.seed EXCEPT !.start = start_instruction],
                    status |-> SolutionFound]
    /\ returned' = SolutionFound
    /\ outcome' = "returned"
    /\ pc' = "done"
    /\ stack' = <<>>
    /\ UNCHANGED <<planner, request, start_waypoint, start_instruction, calls, kin,
                   build, error_what, lvs, life>>

Next ==
    \/ RegisterProfile
    \/ SolveBegin
    \/ EnterComposite
    \/ ReturnComposite
    \/ CopyInstruction
    \/ ProcessPlanInstruction
    \/ SolveFinish

Spec == Init /\ [][Next]_vars

-----------------------------------------------------------------------------
(* The step generators called on their own *)

\* joint positions and poses of the endpoints of a segment
LVSJoints == {<<2, 1>>, <<5, 1>>, <<2, 5>>}

LVSPoses == {[t |-> 5, r |-> 2], [t |-> 8, r |-> 2], [t |-> 5, r |-> 6]}

\* base instructions: linear, freespace, a START instruction, and one that
\* names the manipulator whose solvers disagree on the joint order
LVSBaseInstructions ==
    { l \in PlanLeaves : l.description \in {"jl", "cf", "start", "m2"} }
        \cup { PlanInstruction(CartesianWaypoint([t |-> 5, r |-> 2]), "LINEAR", "",
                               ManipulatorInfo("m3"), "m3") }

\* what inverse kinematics may answer for the end pose when the start pose
\* is resolved by it as well: solutions at four different distances from
\* those of the start pose
IKEndVals == {<<2, 5>>, <<5, 0>>}

IKEndOutcomes == SeqsUpTo(IKEndVals, MaxSolutions)

\* the arguments after manip_info: the three limits and min_steps
LVSParameters ==
    { LVSPlanProfile(2, 2, 2, m) : m \in {-1, 0, 1, 3} }
        \cup { LVSPlanProfile(1, 2, 2, 1), LVSPlanProfile(2, 1, 2, 1),
               LVSPlanProfile(2, 2, 1, 1), LVSPlanProfile(9, 9, 9, 1) }

\* the record of one call: its arguments, what the kinematics answered, and
\* the composite returned or the exception thrown
LVSCall(variant, start, end, base_instruction, prm, ext, result) ==
    [state |-> "returned", variant |-> variant, start |-> start, end |-> end,
     base_instruction |-> base_instruction, prm |-> prm, ext |-> ext,
     result |-> result]

PlannerUntouched ==
    UNCHANGED <<planner, request, response, pc, stack, start_waypoint,
                start_instruction, outcome, returned, calls, kin, build, error_what,
                life>>

InitLVS ==
    /\ Init
    /\ lvs = [state |-> "idle"]

CallJJ ==
    /\ lvs.state = "idle"
    /\ \E j1 \in LVSJoints, j2 \in LVSJoints, base \in LVSBaseInstructions,
          prm \in LVSParameters :
          LET start == JointWaypoint(SolverNames, j1)
              end == JointWaypoint(SolverNames, j2)
          IN  lvs' = LVSCall("JJ", start, end, base, prm, NoExt,
                             LVSInterpolateStateWaypointJJ(start, end, base,
                                 ManipulatorInfo("m1"), prm, NoExt))
    /\ PlannerUntouched

CallJC ==
    /\ lvs.state = "idle"
    /\ \E j1 \in LVSJoints, p2 \in LVSPoses, base \in LVSBaseInstructions,
          prm \in LVSParameters, fk \in BOOLEAN, ik2 \in IKOutcomes :
          LET start == JointWaypoint(SolverNames, j1)
              end == CartesianWaypoint(p2)
              ext == [fk |-> fk, ik1 |-> <<>>, ik2 |-> ik2]
          IN  lvs' = LVSCall("JC", start, end, base, prm, ext,
                             LVSInterpolateStateWaypointJC(start, end, base,
                                 ManipulatorInfo("m1"), prm, ext))
    /\ PlannerUntouched

CallCJ ==
    /\ lvs.state = "idle"
    /\ \E p1 \in LVSPoses, j2 \in LVSJoints, base \in LVSBaseInstructions,
          prm \in LVSParameters, fk \in BOOLEAN, ik1 \in IKOutcomes :
          LET start == CartesianWaypoint(p1)
              end == JointWaypoint(SolverNames, j2)
              ext == [fk |-> fk, ik1 |-> ik1, ik2 |-> <<>>]
          IN  lvs' = LVSCall("CJ", start, end, base, prm, ext,
                             LVSInterpolateStateWaypointCJ(start, end, base,
                                 ManipulatorInfo("m1"), prm, ext))
    /\ PlannerUntouched

CallCC ==
    /\ lvs.state = "idle"
    /\ \E p1 \in LVSPoses, p2 \in LVSPoses, base \in LVSBaseInstructions,
          prm \in LVSParameters, ik1 \in IKOutcomes, ik2 \in IKEndOutcomes :
          LET start == CartesianWaypoint(p1)
              end == CartesianWaypoint(p2)
              ext == [fk |-> TRUE, ik1 |-> ik1, ik2 |-> ik2]
          IN  lvs' = LVSCall("CC", start, end, base, prm, ext,
                             LVSInterpolateStateWaypointCC(start, end, base,
                                 ManipulatorInfo("m1"), prm, ext, EnvJoints))
    /\ PlannerUntouched

CallCartState ==
    /\ lvs.state = "idle"
    /\ \E wp1 \in {JointWaypoint(SolverNames, j) : j \in LVSJoints}
                     \cup {CartesianWaypoint(p) : p \in LVSPoses},
          wp2 \in {JointWaypoint(SolverNames, j) : j \in LVSJoints}
                     \cup {CartesianWaypoint(p) : p \in LVSPoses},
          base \in LVSBaseInstructions, prm \in LVSParameters :
          lvs' = LVSCall("CartState", wp1, wp2, base, prm, NoExt,
                         LVSInterpolateCartStateWaypoint(wp1, wp2, base,
                             ManipulatorInfo("m1"), prm, NoExt))
    /\ PlannerUntouched

NextLVS ==
    \/ CallJJ
    \/ CallJC
    \/ CallCJ
    \/ CallCC
    \/ CallCartState

SpecLVS == InitLVS /\ [][NextLVS]_vars

-----------------------------------------------------------------------------
(* The fixed-size step generators, called on their own.  Their            *)
(* declarations are in fixed_size_interpolation.h; what they do is taken   *)
(* from the description of the generator: `steps` states after the start,  *)
(* in joint space between the two resolved endpoints (a pose is resolved   *)
(* by inverse kinematics seeded with the other endpoint, or with the       *)
(* environment's state), or between the two poses for the cartesian-state  *)
(* overloads; nothing at all for steps <= 0.                               *)

FixedSteps == {-1, 0, 1, 2, 3}

FixedEndpoints ==
    {JointWaypoint(SolverNames, j) : j \in LVSJoints}
        \cup {CartesianWaypoint(p) : p \in LVSPoses}

FixedBaseInstructions ==
    { l \in PlanLeaves : l.description \in {"jl", "cf", "start"} }

\* a generator that emits the start state in front of the run
fixedSizeInterpolateStateWaypoint_Inclusive(start, end, base_instruction, manip_info, steps, ext, env_state) ==
    LET names == FwdJointNames(manip_info.manipulator)
        seed == getJointValues(env_state, names)
        j1 == IF isJointWaypoint(start) THEN start.position ELSE seed
        j2 == IF isJointWaypoint(end) THEN end.position ELSE seed
    IN  IF ~MoveTypeKnown(base_instruction) THEN Thrown(BadMoveType, 0, 0)
        ELSE Returned(EmitStates_FromStart(interpolate(j1, j2, Max(steps, 1)), names,
                                           base_instruction), steps, 0, 0, j1, j2)

\* fixedSizeInterpolateStateWaypoint, the four overloads
fixedSizeInterpolateStateWaypoint(start, end, base_instruction, manip_info, steps, ext, env_state) ==
    LET mi == getCombined(manip_info, base_instruction.manip_info)
        names == FwdJointNames(mi.manipulator)
        seed == getJointValues(env_state, names)
        asked == (IF isCartesianWaypoint(start) THEN 1 ELSE 0)
                     + (IF isCartesianWaypoint(end) THEN 1 ELSE 0)
        j1 == IF isJointWaypoint(start) THEN start.position
              ELSE IF ext.ik1 = <<>> THEN <<>>
              ELSE ClosestSolution(ext.ik1,
                                   IF isJointWaypoint(end) THEN end.position ELSE seed)
        j2 == IF isJointWaypoint(end) THEN end.position
              ELSE IF ext.ik2 = <<>> THEN <<>>
              ELSE ClosestSolution(ext.ik2,
                                   IF isJointWaypoint(start) THEN start.position ELSE seed)
        known == IF j1 # <<>> THEN j1 ELSE IF j2 # <<>> THEN j2 ELSE seed
        composite ==
            IF steps <= 0 THEN EmptyComposite
            ELSE IF j1 # <<>> /\ j2 # <<>>
            THEN EmitStates(interpolate(j1, j2, steps), names, base_instruction)
            ELSE [EmptyComposite EXCEPT !.children =
                     [i \in 1..steps |-> EmittedMove(names, Rat(known), base_instruction)]]
    IN  IF ~MoveTypeKnown(base_instruction) THEN Thrown(BadMoveType, 0, asked)
        ELSE Returned(composite, steps, 0, asked, j1, j2)

\* fixedSizeInterpolateCartStateWaypoint, the four overloads: the poses
\* between the two endpoint poses, each as a cartesian waypoint
fixedSizeInterpolateCartStateWaypoint(start, end, base_instruction, manip_info, steps, ext) ==
    LET tool(q) == Compose(Compose(WorldToBase, CalcFwdKin(q)), Tcp)
        p1 == IF isCartesianWaypoint(start) THEN start.pose ELSE tool(start.position)
        p2 == IF isCartesianWaypoint(end) THEN end.pose ELSE tool(end.position)
        asked == (IF isJointWaypoint(start) THEN 1 ELSE 0)
                     + (IF isJointWaypoint(end) THEN 1 ELSE 0)
        poses == interpolate(<<p1.t, p1.r>>, <<p2.t, p2.r>>, steps)
        composite ==
            IF steps <= 0 THEN EmptyComposite
            ELSE [EmptyComposite EXCEPT !.children =
                     [i \in 1..steps |->
                         MoveInstruction(CartesianWaypoint(poses[i + 1]),
                                         MoveTypeOf(base_instruction),
                                         base_instruction.manip_info,
                                         base_instruction.description,
                                         base_instruction.profile)]]
    IN  IF asked > 0 /\ ~ext.fk THEN Thrown(FkFailed, 1, 0)
        ELSE IF ~MoveTypeKnown(base_instruction) THEN Thrown(BadMoveType, asked, 0)
        ELSE Returned(composite, steps, asked, 0, <<>>, <<>>)

\* the record of a direct call of a fixed-size generator
FixedCall(variant, start, end, base_instruction, steps, ext, result) ==
    [state |-> "returned", variant |-> variant, start |-> start, end |-> end,
     base_instruction |-> base_instruction, steps |-> steps, ext |-> ext,
     result |-> result]

CallFixedSize ==
    /\ lvs.state = "idle"
    /\ \E start \in FixedEndpoints, end \in FixedEndpoints,
          base \in FixedBaseInstructions, steps \in FixedSteps,
          ik1 \in IKAnswers, ik2 \in IKAnswers :
          LET ext == [fk |-> TRUE,
                      ik1 |-> IF isCartesianWaypoint(start) THEN ik1 ELSE <<>>,
                      ik2 |-> IF isCartesianWaypoint(end) THEN ik2 ELSE <<>>]
          IN  lvs' = FixedCall("FixedState", start, end, base, steps, ext,
                               fixedSizeInterpolateStateWaypoint(start, end, base,
                                   ManipulatorInfo("m1"), steps, ext, EnvJoints))
    /\ PlannerUntouched

CallFixedSizeCartState ==
    /\ lvs.state = "idle"
    /\ \E start \in FixedEndpoints, end \in FixedEndpoints,
          base \in FixedBaseInstructions, steps \in FixedSteps, fk \in BOOLEAN :
          LET ext == [NoExt EXCEPT !.fk = fk]
          IN  lvs' = FixedCall("FixedCartState", start, end, base, steps, ext,
                               fixedSizeInterpolateCartStateWaypoint(start, end, base,
                                   ManipulatorInfo("m1"), steps, ext))
    /\ PlannerUntouched

NextFixed ==
    \/ CallFixedSize
    \/ CallFixedSizeCartState

SpecFixed == InitLVS /\ [][NextFixed]_vars

-----------------------------------------------------------------------------
(* The other members of the planner: clone(), clear() and terminate(),     *)
(* called between registrations on a planner constructed with or without a *)
(* name.                                                                   *)

PlannerNames == {DefaultName, "OtherPlanner"}

\* assignments to keys that are already in plan_profiles
Overrides ==
    { <<DEFAULT_PROFILE_KEY, ScenarioProfile>>, <<"cart", NullProfile>> }

\* a clone made with the copy constructor
clone_Copy(pl) == pl

\* std::make_shared<SimpleMotionPlanner>(): the constructor without a name
clone(pl) == NewPlanner(DefaultName)

\* "void SimpleMotionPlanner::clear() {}": the planner after the call
clear(pl) == pl

\* the planner after the call and the value returned
terminate(pl) == [planner |-> pl, result |-> FALSE]

InitLifecycle ==
    /\ planner \in {NewPlanner(n) : n \in PlannerNames}
    /\ request = [env |-> "nullptr", env_state |-> EnvJoints,
                  instructions |-> EmptyComposite, plan_profile_remapping |-> <<>>]
    /\ response = NewResponse
    /\ pc = "idle"
    /\ stack = <<>>
    /\ start_waypoint = NullWaypoint
    /\ start_instruction = MoveInstruction(NullWaypoint, "START", ManipulatorInfo(""), "",
                                           DEFAULT_PROFILE_KEY)
    /\ outcome = "none"
    /\ returned = "none"
    /\ calls = <<>>
    /\ kin = [fwd_lookups |-> 0, fwd_manipulator |-> "", fk_calls |-> 0, ik_calls |-> 0]
    /\ build = "any"
    /\ error_what = ""
    /\ lvs = [state |-> "idle"]
    /\ life = [op |-> "none"]

LifecycleFrame ==
    UNCHANGED <<request, response, pc, stack, start_waypoint, start_instruction,
                outcome, returned, calls, kin, build, error_what, lvs>>

\* plan_profiles[key] = profile for a key that is registered
OverrideProfile ==
    /\ pc = "idle"
    /\ \E reg \in Overrides :
          /\ reg[1] \in DOMAIN planner.plan_profiles
          /\ planner.plan_profiles[reg[1]] # reg[2]
          /\ planner' = [planner EXCEPT !.plan_profiles[reg[1]] = reg[2]]
    /\ UNCHANGED life
    /\ LifecycleFrame

Clone ==
    /\ life' = [op |-> "clone", result |-> clone(planner)]
    /\ UNCHANGED planner
    /\ LifecycleFrame

Clear ==
    /\ planner' = clear(planner)
    /\ life' = [op |-> "clear", result |-> "void"]
    /\ LifecycleFrame

Terminate ==
    /\ planner' = terminate(planner).planner
    /\ life' = [op |-> "terminate", result |-> terminate(planner).result]
    /\ LifecycleFrame

NextLifecycle ==
    \/ RegisterProfile
    \/ OverrideProfile
    \/ Clone
    \/ Clear
    \/ Terminate

SpecLifecycle == InitLifecycle /\ [][NextLifecycle]_vars

-----------------------------------------------------------------------------
(* Properties of solve() *)

SupportedKinds == {"cart", "joint", "state"}

Finished == pc = "done"

Succeeded == Finished /\ outcome = "returned" /\ returned = SolutionFound

\* the plan instructions of a program in the order of the depth-first walk
RECURSIVE PlanInstructionsOf(_)
PlanInstructionsOf(children) ==
    IF children = <<>> THEN <<>>
    ELSE LET h == Head(children)
         IN  (IF isPlanInstruction(h) THEN <<h>>
              ELSE IF isCompositeInstruction(h) THEN PlanInstructionsOf(h.children)
              ELSE <<>>) \o PlanInstructionsOf(Tail(children))

ProgramLeaves == PlanInstructionsOf(request.instructions.children)

UnsupportedStart ==
    /\ hasStartInstruction(request.instructions)
    /\ request.instructions.start.waypoint.k \notin SupportedKinds

\* C1: solve() always returns a status; with an explicit start instruction
\* whose waypoint is neither joint, cartesian nor state it returns
\* ErrorInvalidInput, and no exception leaves solve().
C1_UnsupportedStartIsInvalidInput ==
    Finished =>
        /\ outcome # "thrown"
        /\ UnsupportedStart =>
              /\ outcome = "returned"
              /\ returned = ErrorInvalidInput
              /\ response.status = ErrorInvalidInput

\* C2: with a null environment or an empty instruction list solve() sets and
\* returns ErrorInvalidInput, looks up no kinematics, processes nothing and
\* leaves response.results as it was.
C2_InvalidRequestRejected ==
    (Finished /\ (request.env = "nullptr" \/ request.instructions.children = <<>>)) =>
        /\ outcome = "returned"
        /\ returned = ErrorInvalidInput
        /\ response.status = ErrorInvalidInput
        /\ response.results = NewResponse.results
        /\ kin = [fwd_lookups |-> 0, fwd_manipulator |-> "", fk_calls |-> 0, ik_calls |-> 0]
        /\ calls = <<>>
        /\ start_waypoint = NullWaypoint

C2_Witness ==
    /\ Finished
    /\ request.env = "env"
    /\ request.instructions.children = <<>>
    /\ response.status = ErrorInvalidInput

\* the exceptions processCompositeInstruction and the strategies raise
ProcessingFailures ==
    { UnsupportedWaypoints, "Unsupported!", "SimpleMotionPlanner: Invalid start profile",
      NamesDiffer, FkFailed, NotImplemented, BadMoveType }

RECURSIVE ShapePreserved(_, _)
ShapePreserved(input, output) ==
    /\ isCompositeInstruction(output)
    /\ output.profile = input.profile
    /\ output.order = input.order
    /\ output.manip_info = input.manip_info
    /\ Len(output.children) = Len(input.children)
    /\ \A i \in 1..Len(input.children) :
          LET ic == input.children[i]
              oc == output.children[i]
          IN  IF isCompositeInstruction(ic) THEN ShapePreserved(ic, oc)
              ELSE isPlanInstruction(ic) =>
                      /\ isCompositeInstruction(oc)
                      /\ \A k \in 1..Len(oc.children) :
                            /\ oc.children[k].kind = "move"
                            /\ oc.children[k].description = ic.description

\* C4: the seed has, for every composite of the program, a composite with the
\* same profile, order and manipulator and as many children in the same
\* order: a composite built by recursion for a composite child, a composite
\* holding the run of MoveInstructions of the leaf for a plan instruction.
C4_TreeShapePreserved ==
    /\ Succeeded => ShapePreserved(request.instructions, response.results)
    /\ \A f \in 1..Len(stack) :
          LET node == NodeAt(request.instructions, stack[f].path)
          IN  ShapePreserved([node EXCEPT !.children = SubSeq(@, 1, stack[f].i - 1)],
                             stack[f].seed)

\* a nested composite with a plan instruction in it, then a plan instruction
C4_Witness ==
    /\ Succeeded
    /\ Len(request.instructions.children) = 2
    /\ isCompositeInstruction(request.instructions.children[1])
    /\ Len(request.instructions.children[1].children) = 1
    /\ isPlanInstruction(request.instructions.children[1].children[1])
    /\ isPlanInstruction(request.instructions.children[2])
    /\ Len(response.results.children[1].children[1].children) > 0
    /\ Len(response.results.children[2].children) > 0

\* the run of every plan instruction of the program has at least one move
RECURSIVE EveryLeafExpanded(_, _)
EveryLeafExpanded(input, output) ==
    \A i \in 1..Len(input.children) :
        LET ic == input.children[i]
            oc == output.children[i]
        IN  IF isCompositeInstruction(ic) THEN EveryLeafExpanded(ic, oc)
            ELSE isPlanInstruction(ic) => Len(oc.children) >= 1

\* C5: in a seed returned with SolutionFound every plan instruction of the
\* program is expanded to at least one MoveInstruction, whatever the endpoint
\* types and whatever inverse kinematics answers.
C5_EveryLeafExpanded ==
    Succeeded => EveryLeafExpanded(request.instructions, response.results)

\* a call of a step generator that returned although inverse kinematics
\* found nothing for one of the endpoints
DegenerateCall ==
    /\ lvs.state = "returned"
    /\ ~lvs.result.thrown
    /\ \/ lvs.variant = "JC" /\ lvs.ext.ik2 = <<>>
       \/ lvs.variant = "CJ" /\ lvs.ext.ik1 = <<>>
       \/ lvs.variant = "CC" /\ (lvs.ext.ik1 = <<>> \/ lvs.ext.ik2 = <<>>)

\* the joint vector a degenerate call falls back to
Fallback ==
    LET names == InvJointNames(getCombined(ManipulatorInfo("m1"),
                                           lvs.base_instruction.manip_info).manipulator)
        seed == [i \in 1..Len(names) |-> EnvJoints[names[i]]]
    IN  IF lvs.variant = "JC" THEN lvs.start.position
        ELSE IF lvs.variant = "CJ" THEN lvs.end.position
        ELSE IF lvs.ext.ik1 # <<>> THEN ClosestSolution(lvs.ext.ik1, seed)
        ELSE IF lvs.ext.ik2 # <<>> THEN ClosestSolution(lvs.ext.ik2, seed)
        ELSE seed

\* C6: when inverse kinematics finds no solution for an endpoint, the run has
\* exactly `steps` MoveInstructions, steps being the derived step count, and
\* the waypoint of each of them is the fallback joint vector: the known joint
\* endpoint (joint/cartesian, cartesian/joint), the solution of the one
\* resolved endpoint closest to the seed, or the seed when neither resolves.
C6_DegenerateRun ==
    DegenerateCall =>
        LET moves == lvs.result.composite.children
        IN  /\ Len(moves) = lvs.result.steps
            /\ \A k \in 1..Len(moves) : moves[k].waypoint.position = Rat(Fallback)

\* the waypoint the i-th call of the walk must start from
ExpectedFrom(i) ==
    IF i = 1 THEN start_instruction.waypoint ELSE ProgramLeaves[i - 1].waypoint

\* C7: the running waypoint is threaded depth-first through the tree: the
\* segment of each plan instruction starts from the authored waypoint of the
\* plan instruction before it in depth-first order (from the start state for
\* the first), also across the end of a nested composite, and after a plan
\* instruction is processed the running waypoint is its authored waypoint.
C7_RunningWaypointThreaded ==
    /\ Len(calls) <= Len(ProgramLeaves)
    /\ \A i \in 1..Len(calls) :
          /\ calls[i].leaf = ProgramLeaves[i]
          /\ calls[i].from = ExpectedFrom(i)
    /\ (pc = "process" /\ calls # <<>>) =>
          start_waypoint = calls[Len(calls)].leaf.waypoint

\* the first leaf ends a nested composite, the second is the next sibling
C7_Witness ==
    /\ Len(calls) = 2
    /\ Len(request.instructions.children) = 2
    /\ isCompositeInstruction(request.instructions.children[1])
    /\ isPlanInstruction(request.instructions.children[2])
    /\ calls[2].from = request.instructions.children[1].children[1].waypoint
    /\ calls[2].from.k = "joint"
    /\ calls[2].leaf = request.instructions.children[2]
    /\ ~calls[1].thrown

\* resolved-state endpoints count as joint endpoints
EndpointKind(wp) == IF wp.k = "cart" THEN "cart" ELSE "joint"

PairName(k1, k2) ==
    IF k1 = "cart" /\ k2 = "cart" THEN "cart_cart"
    ELSE IF k1 = "cart" THEN "cart_joint"
    ELSE IF k2 = "cart" THEN "joint_cart"
    ELSE "joint_joint"

\* the waypoint a strategy must be handed for an endpoint
PassedAs(wp) ==
    IF wp.k = "state"
    THEN [k |-> "joint", joint_names |-> wp.joint_names, position |-> wp.position]
    ELSE wp

\* C8: for each of the nine pairs of endpoint types one strategy is called:
\* the one of the pair after resolved-state is mapped to joint, a *_linear
\* one for a linear and a *_freespace one for a freespace instruction, with a
\* resolved-state endpoint handed over as a joint waypoint of the same names
\* and positions; no supported pair is refused.
C8_DispatchTotal ==
    /\ \A i \in 1..Len(calls) :
          LET c == calls[i]
          IN  /\ c.from.k \in SupportedKinds
              /\ c.leaf.waypoint.k \in SupportedKinds
              /\ c.slot.pair = PairName(EndpointKind(c.from), EndpointKind(c.leaf.waypoint))
              /\ c.slot.motion = (IF c.leaf.type = "LINEAR" THEN "linear" ELSE "freespace")
              /\ c.leaf.type \in {"LINEAR", "FREESPACE"}
              /\ c.start = PassedAs(c.from)
              /\ c.end = PassedAs(c.leaf.waypoint)
    /\ error_what = UnsupportedWaypoints =>
          ProgramLeaves[Len(calls) + 1].waypoint.k \notin SupportedKinds
    /\ Succeeded => Len(calls) = Len(ProgramLeaves)

\* a resolved-state leaf reached from a resolved-state leaf, in freespace
C8_Witness ==
    /\ Len(calls) = 2
    /\ calls[2].from.k = "state"
    /\ calls[2].leaf.waypoint.k = "state"
    /\ calls[2].slot = [pair |-> "joint_joint", motion |-> "freespace"]
    /\ calls[2].start.k = "joint"
    /\ calls[2].end.k = "joint"

\* every pair of endpoint types is dispatched, for both motion types
C8_AllPairsWitness ==
    /\ Len(calls) = 2
    /\ calls[2].from.k = "cart"
    /\ calls[2].leaf.waypoint.k = "state"
    /\ calls[2].slot = [pair |-> "cart_joint", motion |-> "linear"]

\* C9: solve() ends in one of the two statuses SolutionFound and
\* ErrorInvalidInput, never in FailedToFindValidSolution, and the status it
\* returns is response.status.
C9_TwoStatuses ==
    (Finished /\ outcome # "aborted") =>
        /\ outcome = "returned"
        /\ response.status \in {SolutionFound, ErrorInvalidInput}
        /\ returned = response.status

\* C10: without an explicit start instruction the start instruction of the
\* seed has type START and a resolved-state waypoint named with the forward
\* solver's joint names, in that order, holding the environment's current
\* value of each of those joints.
C10_StartSynthesized ==
    (Succeeded /\ ~hasStartInstruction(request.instructions)) =>
        LET si == response.results.start
            wp == si.waypoint
            names == FwdJointNames(request.instructions.manip_info.manipulator)
        IN  /\ si.kind = "move"
            /\ si.type = "START"
            /\ wp.k = "state"
            /\ wp.joint_names = names
            /\ DOMAIN wp.position = DOMAIN names
            /\ \A i \in DOMAIN names : wp.position[i] = request.env_state[names[i]]

C10_Witness ==
    /\ Succeeded
    /\ ~hasStartInstruction(request.instructions)
    /\ response.results.start.waypoint.position = <<2, 1>>
    /\ Len(calls) = 2

\* solve() got past getStartInstruction
StartResolved == pc = "process" \/ Succeeded \/ error_what # ""

\* C11: an explicit start is resolved by the type of its waypoint: a joint
\* waypoint becomes a state waypoint of the same joint names and positions, a
\* state waypoint is kept as it is, a cartesian waypoint is replaced by the
\* environment's current values of the solver's joints, whatever its pose and
\* with no inverse kinematics call; the start instruction then carries the
\* manipulator info of the explicit start, and is the start of the seed.
C11_ExplicitStartResolved ==
    (StartResolved /\ hasStartInstruction(request.instructions)) =>
        LET authored == request.instructions.start
            wp == authored.waypoint
            names == FwdJointNames(request.instructions.manip_info.manipulator)
            si == start_instruction
        IN  /\ si.kind = "move"
            /\ si.manip_info = authored.manip_info
            /\ wp.k \in SupportedKinds
            /\ wp.k = "joint" =>
                  si.waypoint = [k |-> "state", joint_names |-> wp.joint_names,
                                 position |-> wp.position]
            /\ wp.k = "state" => si.waypoint = wp
            /\ wp.k = "cart" =>
                  si.waypoint = [k |-> "state", joint_names |-> names,
                                 position |-> [i \in 1..Len(names) |->
                                                  request.env_state[names[i]]]]
            /\ calls = <<>> => kin.ik_calls = 0
            /\ Succeeded => response.results.start = si

\* a cartesian start of a pose of its own and a manipulator other than the root's
C11_Witness ==
    /\ Succeeded
    /\ hasStartInstruction(request.instructions)
    /\ request.instructions.start.waypoint = CartesianWaypoint([t |-> 8, r |-> 6])
    /\ response.results.start.waypoint.position = <<2, 1>>
    /\ response.results.start.manip_info = ManipulatorInfo("m2")
    /\ request.instructions.manip_info = ManipulatorInfo("m1")

\* C12: a response returned with SolutionFound holds the seed that was just
\* built, and the start instruction at its root is the resolved start: of
\* type START, with a state waypoint; the first segment starts from that
\* state waypoint, and no segment is ever dispatched from a null waypoint:
\* the running waypoint is always a cartesian, joint or state waypoint.
C12_SeedCarriesResolvedStart ==
    /\ Succeeded =>
          /\ response.results.start = start_instruction
          /\ response.results.start.kind = "move"
          /\ response.results.start.type = "START"
          /\ response.results.start.waypoint.k = "state"
          /\ response.results.profile = request.instructions.profile
          /\ Len(response.results.children) = Len(request.instructions.children)
    /\ calls # <<>> =>
          /\ calls[1].from = start_instruction.waypoint
          /\ calls[1].from.k = "state"
    /\ pc = "process" => start_waypoint.k \in SupportedKinds
    /\ \A i \in 1..Len(calls) : calls[i].from.k \in SupportedKinds

\* an authored joint start, resolved, attached to the seed and started from
C12_Witness ==
    /\ Succeeded
    /\ hasStartInstruction(request.instructions)
    /\ request.instructions.start.waypoint.k = "joint"
    /\ Len(calls) = 1
    /\ calls[1].from = StateWaypoint(SolverNames, <<0, 3>>)
    /\ response.results.start.waypoint = StateWaypoint(SolverNames, <<0, 3>>)
    /\ Len(response.results.children[1].children) > 0

\* the name a plan instruction's profile resolves to in the running request
ResolvedName(plan_instruction) ==
    getProfileString(plan_instruction.profile, planner.name_,
                     request.plan_profile_remapping)

Registered(name) == name \in DOMAIN planner.plan_profiles

InvalidProfile == "SimpleMotionPlanner: Invalid start profile"

\* C13: the planner always has the default key registered, from construction
\* with the built-in LVS profile; a plan instruction whose resolved profile
\* name is not registered is planned with the built-in LVS profile and does
\* not fail for its name: the invalid-profile failure occurs only for a name
\* registered with a null profile, the failure of an unimplemented strategy
\* only for a name registered with such a profile.
C13_ProfileFallback ==
    /\ Registered(DEFAULT_PROFILE_KEY)
    /\ planner.plan_profiles[DEFAULT_PROFILE_KEY] = SimplePlannerDefaultLVSPlanProfile
    /\ \A k \in DOMAIN planner.plan_profiles :
          k = DEFAULT_PROFILE_KEY \/ <<k, planner.plan_profiles[k]>> \in Registrations
    /\ error_what = InvalidProfile =>
          LET name == ResolvedName(ProgramLeaves[Len(calls) + 1])
          IN  Registered(name) /\ planner.plan_profiles[name] = NullProfile
    /\ \A i \in 1..Len(calls) :
          LET name == ResolvedName(calls[i].leaf)
          IN  /\ Registered(name) => planner.plan_profiles[name] # NullProfile
              /\ ~Registered(name) =>
                    /\ calls[i].thrown => error_what \in {FkFailed, NamesDiffer}
                    /\ ~calls[i].thrown => calls[i].steps >= 1

\* a plan instruction naming a profile nobody registered, planned all the same
C13_Witness ==
    /\ Succeeded
    /\ Len(calls) = 1
    /\ calls[1].leaf.profile = "cart"
    /\ request.plan_profile_remapping = <<>>
    /\ ~Registered("cart")
    /\ calls[1].emitted >= 1

\* the profile renamed by the request to a name nobody registered
C13_RemappedWitness ==
    /\ Succeeded
    /\ Len(calls) = 1
    /\ ResolvedName(calls[1].leaf) = "unknown"
    /\ Registered("cart")
    /\ calls[1].emitted >= 1

\* the scenario was planned under its profile and solve() returned the seed
ScenarioPlanned ==
    /\ Succeeded
    /\ request.instructions = ScenarioProgram
    /\ request.plan_profile_remapping = <<>>
    /\ Registered("scenario")

\* the run of the scenario's plan instruction
ScenarioRun == response.results.children[1].children

\* the k-th move of the run lies k / n of the way from the start to the end
\* of the scenario, n being the length of the run, and is a linear move
LinearlySpaced(run) ==
    \A k \in 1..Len(run) :
        LET pos == run[k].waypoint.position
            from == ScenarioStart.waypoint.position
            to == ScenarioLeaf.waypoint.position
        IN  /\ run[k].kind = "move"
            /\ run[k].type = "LINEAR"
            /\ run[k].waypoint.k = "state"
            /\ pos.den > 0
            /\ \A i \in 1..Len(from) :
                  pos.num[i] * Len(run) = pos.den * (from[i] * (Len(run) - k) + to[i] * k)

StartUnchanged ==
    /\ response.results.start.type = "START"
    /\ response.results.start.waypoint =
          StateWaypoint(ScenarioStart.waypoint.joint_names, ScenarioStart.waypoint.position)

\* C17 as the spec states it: for the two-point linear joint-to-joint request
\* with joint delta norm 0.5 rad, joint limit 0.1 rad, cartesian limits that
\* do not bind and min_steps 1, the plan instruction is expanded to exactly 5
\* MoveInstructions, linearly spaced in joint space, after the unchanged start.
C17_ScenarioFiveMoves ==
    ScenarioPlanned =>
        /\ Len(ScenarioRun) = 5
        /\ LinearlySpaced(ScenarioRun)
        /\ StartUnchanged

\* C17, amended: in that scenario the plan instruction is expanded to exactly
\* floor(0.5 / 0.1) + 1 = 6 MoveInstructions, linearly spaced in joint space
\* from the start (not emitted) to the end (the last one), after the unchanged
\* start instruction.
C17_ScenarioSixMoves ==
    ScenarioPlanned =>
        /\ Len(ScenarioRun) = 6
        /\ LinearlySpaced(ScenarioRun)
        /\ ScenarioRun[6].waypoint.position = Rat(ScenarioLeaf.waypoint.position)
        /\ StartUnchanged
        /\ Len(calls) = 1
        /\ calls[1].slot = [pair |-> "joint_joint", motion |-> "linear"]

C17_Witness ==
    /\ ScenarioPlanned
    /\ Len(ScenarioRun) > 0
    /\ ScenarioRun[1].waypoint.position = [num |-> <<3, 22>>, den |-> 6]
    /\ ScenarioRun[3].waypoint.position = [num |-> <<3, 10>>, den |-> 2]

-----------------------------------------------------------------------------
(* Properties of the LVS step generators *)

\* a call of one of the four LVSInterpolateStateWaypoint overloads returned
LVSReturned ==
    /\ lvs.state = "returned"
    /\ lvs.variant \in {"JJ", "JC", "CJ", "CC"}
    /\ ~lvs.result.thrown

\* the two poses of the segment, in the frame the overload compares them in
SegmentPoses ==
    LET flange(pose) == Compose(Inverse(WorldToBase), Compose(pose, Inverse(Tcp)))
        tool(q) == Compose(Compose(WorldToBase, CalcFwdKin(q)), Tcp)
    IN  IF lvs.variant = "JJ" THEN <<tool(lvs.start.position), tool(lvs.end.position)>>
        ELSE IF lvs.variant = "JC"
        THEN <<CalcFwdKin(lvs.start.position), flange(lvs.end.pose)>>
        ELSE IF lvs.variant = "CJ"
        THEN <<flange(lvs.start.pose), CalcFwdKin(lvs.end.position)>>
        ELSE <<flange(lvs.start.pose), flange(lvs.end.pose)>>

\* the solutions inverse kinematics gave for each endpoint; an authored joint
\* endpoint counts as its one solution
StartCandidates ==
    IF lvs.variant \in {"JJ", "JC"} THEN {lvs.start.position}
    ELSE {lvs.ext.ik1[i] : i \in 1..Len(lvs.ext.ik1)}

EndCandidates ==
    IF lvs.variant \in {"JJ", "CJ"} THEN {lvs.end.position}
    ELSE {lvs.ext.ik2[i] : i \in 1..Len(lvs.ext.ik2)}

BothResolved == StartCandidates # {} /\ EndCandidates # {}

\* the pairs of candidates no other pair is strictly closer than
ClosestPairs ==
    { pr \in StartCandidates \X EndCandidates :
        \A other \in StartCandidates \X EndCandidates :
            Dist2(pr[1], pr[2]) <= Dist2(other[1], other[2]) }

\* floor(dist / limit) + 1, and the same for the root of the squared norm d2
FloorPlusOne(dist, limit) ==
    CHOOSE n \in 1..(dist + 1) : (n - 1) * limit <= dist /\ dist < n * limit

NormFloorPlusOne(d2, limit) ==
    CHOOSE n \in 1..(d2 + 1) :
        /\ (n - 1) * (n - 1) * limit * limit <= d2
        /\ d2 < n * n * limit * limit

MaxOf(S) == CHOOSE x \in S : \A y \in S : y <= x

\* the axis counts of the call: translation and rotation, and the joint count
\* when both endpoints have a joint vector
AxisTerms ==
    LET p == SegmentPoses
        pr == CHOOSE x \in ClosestPairs : TRUE
    IN  { FloorPlusOne(Abs(p[2].t - p[1].t), lvs.prm.translation_longest_valid_segment_length),
          FloorPlusOne(Abs(p[2].r - p[1].r), lvs.prm.rotation_longest_valid_segment_length) }
        \cup (IF BothResolved
              THEN { NormFloorPlusOne(Dist2(pr[1], pr[2]),
                                      lvs.prm.state_longest_valid_segment_length) }
              ELSE {})

\* C14: the derived step count is the maximum of floor(trans_dist /
\* trans_limit) + 1, floor(rot_dist / rot_limit) + 1 and min_steps, and of
\* floor(joint_dist / joint_limit) + 1 as well exactly when both endpoints
\* have a joint vector (authored, or resolved by inverse kinematics); the
\* joint/joint overload always has all three.
C14_StepCount ==
    LVSReturned =>
        /\ lvs.result.steps = MaxOf(AxisTerms \cup {lvs.prm.min_steps})
        /\ lvs.variant = "JJ" => BothResolved

\* the joint count alone decides, the cartesian endpoint resolved
C14_Witness ==
    /\ LVSReturned
    /\ lvs.variant = "JC"
    /\ lvs.ext.ik2 # <<>>
    /\ lvs.result.steps = 3
    /\ lvs.prm.min_steps = 1
    /\ CartesianSteps(SegmentPoses[1], SegmentPoses[2], lvs.prm) < 3

\* the rotation count alone decides, the cartesian endpoint unresolved
C14_RotationWitness ==
    /\ LVSReturned
    /\ lvs.variant = "CJ"
    /\ lvs.ext.ik1 = <<>>
    /\ lvs.prm.min_steps = 1
    /\ lvs.result.steps > 1
    /\ lvs.result.steps > FloorPlusOne(Abs(SegmentPoses[2].t - SegmentPoses[1].t),
                                       lvs.prm.translation_longest_valid_segment_length)

\* C15: in every overload and for every answer of inverse kinematics the
\* derived step count is at least min_steps, and at least 1 also when
\* min_steps is zero or negative.
C15_MinStepsFloor ==
    LVSReturned =>
        /\ lvs.result.steps >= lvs.prm.min_steps
        /\ lvs.result.steps >= 1

\* min_steps decides the count, neither cartesian endpoint resolved
C15_Witness ==
    /\ LVSReturned
    /\ lvs.variant = "CC"
    /\ lvs.ext.ik1 = <<>>
    /\ lvs.ext.ik2 = <<>>
    /\ lvs.prm.min_steps = 3
    /\ lvs.result.steps = 3

\* a negative min_steps and a count of one
C15_NegativeWitness ==
    /\ LVSReturned
    /\ lvs.variant = "JJ"
    /\ lvs.prm.min_steps = -1
    /\ lvs.result.steps = 1

\* the call of lvs made again with other limits and min_steps
Recomputed(prm) ==
    LET mi == ManipulatorInfo("m1")
    IN  IF lvs.variant = "JJ"
        THEN LVSInterpolateStateWaypointJJ(lvs.start, lvs.end, lvs.base_instruction,
                                           mi, prm, lvs.ext)
        ELSE IF lvs.variant = "JC"
        THEN LVSInterpolateStateWaypointJC(lvs.start, lvs.end, lvs.base_instruction,
                                           mi, prm, lvs.ext)
        ELSE IF lvs.variant = "CJ"
        THEN LVSInterpolateStateWaypointCJ(lvs.start, lvs.end, lvs.base_instruction,
                                           mi, prm, lvs.ext)
        ELSE LVSInterpolateStateWaypointCC(lvs.start, lvs.end, lvs.base_instruction,
                                           mi, prm, lvs.ext, EnvJoints)

\* prm with no limit below the one of lvs.prm, and the same min_steps
LimitsRaised(prm) ==
    /\ prm.min_steps = lvs.prm.min_steps
    /\ prm.state_longest_valid_segment_length
          >= lvs.prm.state_longest_valid_segment_length
    /\ prm.translation_longest_valid_segment_length
          >= lvs.prm.translation_longest_valid_segment_length
    /\ prm.rotation_longest_valid_segment_length
          >= lvs.prm.rotation_longest_valid_segment_length

\* C16: with the endpoints, the answers of inverse kinematics and min_steps
\* fixed, the same call with a limit raised never derives more steps; read
\* the other way, with a limit lowered it never derives fewer.
C16_StepCountMonotone ==
    LVSReturned =>
        \A prm \in LVSParameters :
            LimitsRaised(prm) =>
                /\ ~Recomputed(prm).thrown
                /\ Recomputed(prm).steps <= lvs.result.steps

\* raising the joint limit alone takes steps away
C16_Witness ==
    /\ LVSReturned
    /\ lvs.prm = LVSPlanProfile(1, 2, 2, 1)
    /\ LimitsRaised(LVSPlanProfile(2, 2, 2, 1))
    /\ Recomputed(LVSPlanProfile(2, 2, 2, 1)).steps < lvs.result.steps

\* the moves of the returned run
Moves == lvs.result.composite.children

\* the run goes from joint vector a to joint vector b in equal steps: its
\* k-th state is a + (k / n)(b - a), n being the length of the run
RunBetween(a, b) ==
    \A k \in 1..Len(Moves) :
        LET pos == Moves[k].waypoint.position
        IN  /\ pos.den > 0
            /\ \A i \in 1..Len(a) :
                  pos.num[i] * Len(Moves) = pos.den * (a[i] * (Len(Moves) - k) + b[i] * k)

\* C18: when both endpoints have a joint vector (authored, or resolved by
\* inverse kinematics) the run has exactly `steps` MoveInstructions, `steps`
\* being the derived step count; its k-th state is start + (k / steps)(end -
\* start), so the start state is not emitted, and its last state is the end
\* joint vector: the authored one, or the inverse kinematics solution used.
C18_InterpolatedRun ==
    (LVSReturned /\ BothResolved) =>
        /\ Len(Moves) = lvs.result.steps
        /\ \E pr \in ClosestPairs :
              /\ RunBetween(pr[1], pr[2])
              /\ Moves[Len(Moves)].waypoint.position = Rat(pr[2])
              /\ pr[1] # pr[2] => Moves[1].waypoint.position # Rat(pr[1])

\* three steps to a resolved cartesian end: thirds of the way
C18_Witness ==
    /\ LVSReturned
    /\ lvs.variant = "JC"
    /\ lvs.start.position = <<2, 1>>
    /\ lvs.ext.ik2 = <<<<5, 5>>>>
    /\ Len(Moves) = 3
    /\ Moves[1].waypoint.position = [num |-> <<9, 7>>, den |-> 3]
    /\ Moves[3].waypoint.position = Rat(<<5, 5>>)

\* inverse kinematics resolved one cartesian endpoint, and the other endpoint
\* is an authored joint vector or stays unresolved
OneEndpointResolved ==
    /\ LVSReturned
    /\ \/ lvs.variant = "JC" /\ lvs.ext.ik2 # <<>>
       \/ lvs.variant = "CJ" /\ lvs.ext.ik1 # <<>>
       \/ lvs.variant = "CC" /\ (lvs.ext.ik1 = <<>>) # (lvs.ext.ik2 = <<>>)

\* the environment's current values of the inverse solver's joints
EnvSeed ==
    LET names == InvJointNames(getCombined(ManipulatorInfo("m1"),
                                           lvs.base_instruction.manip_info).manipulator)
    IN  [i \in 1..Len(names) |-> EnvJoints[names[i]]]

\* what the solutions of the resolved endpoint are compared to
Reference ==
    IF lvs.variant = "JC" THEN lvs.start.position
    ELSE IF lvs.variant = "CJ" THEN lvs.end.position
    ELSE EnvSeed

ResolvedCandidates ==
    IF lvs.variant = "JC" THEN EndCandidates
    ELSE IF lvs.variant = "CJ" THEN StartCandidates
    ELSE StartCandidates \cup EndCandidates

\* no returned solution is strictly closer to the reference than s
ClosestToReference(s) ==
    /\ s \in ResolvedCandidates
    /\ \A t \in ResolvedCandidates : Dist2(s, Reference) <= Dist2(t, Reference)

\* C19: when inverse kinematics resolves one endpoint, the solution used is
\* one of least Euclidean distance to the known joint endpoint (joint /
\* cartesian, cartesian / joint) or, with both endpoints cartesian and the
\* other unresolved, to the environment seed: the run ends at it, starts
\* towards the joint end from it, or repeats it.
C19_ClosestSolutionUsed ==
    OneEndpointResolved =>
        \E s \in ResolvedCandidates :
            /\ ClosestToReference(s)
            /\ lvs.variant = "JC" =>
                  /\ RunBetween(lvs.start.position, s)
                  /\ Moves[Len(Moves)].waypoint.position = Rat(s)
            /\ lvs.variant = "CJ" =>
                  /\ RunBetween(s, lvs.end.position)
                  /\ lvs.result.steps >=
                        NormFloorPlusOne(Dist2(s, Reference),
                                         lvs.prm.state_longest_valid_segment_length)
            /\ lvs.variant = "CC" =>
                  \A k \in 1..Len(Moves) : Moves[k].waypoint.position = Rat(s)

\* the second of two solutions is the closer one, and the run ends at it
C19_Witness ==
    /\ OneEndpointResolved
    /\ lvs.variant = "JC"
    /\ lvs.start.position = <<5, 1>>
    /\ lvs.ext.ik2 = <<<<5, 5>>, <<2, 1>>>>
    /\ Len(Moves) > 1
    /\ Moves[Len(Moves)].waypoint.position = Rat(<<2, 1>>)

\* the second of two solutions is the closer one to the seed, and is repeated
C19_SeedWitness ==
    /\ OneEndpointResolved
    /\ lvs.variant = "CC"
    /\ lvs.ext.ik2 = <<<<2, 5>>, <<5, 0>>>>
    /\ Len(Moves) = 2
    /\ Moves[1].waypoint.position = Rat(<<5, 0>>)

\* C20: when inverse kinematics resolves both cartesian endpoints, the run is
\* interpolated between a pair of solutions, one per endpoint, of least
\* Euclidean distance among all pairs of a start and an end solution, and
\* the joint term of the step count is the one of that least distance.
C20_ClosestPairUsed ==
    (LVSReturned /\ lvs.variant = "CC" /\ BothResolved) =>
        \E pr \in StartCandidates \X EndCandidates :
            /\ \A other \in StartCandidates \X EndCandidates :
                  Dist2(pr[1], pr[2]) <= Dist2(other[1], other[2])
            /\ RunBetween(pr[1], pr[2])
            /\ Moves[Len(Moves)].waypoint.position = Rat(pr[2])
            /\ lvs.result.steps =
                  MaxOf({ FloorPlusOne(Abs(SegmentPoses[2].t - SegmentPoses[1].t),
                                       lvs.prm.translation_longest_valid_segment_length),
                          FloorPlusOne(Abs(SegmentPoses[2].r - SegmentPoses[1].r),
                                       lvs.prm.rotation_longest_valid_segment_length),
                          NormFloorPlusOne(Dist2(pr[1], pr[2]),
                                           lvs.prm.state_longest_valid_segment_length),
                          lvs.prm.min_steps })

\* the closest pair is the last one of the four, three apart
C20_Witness ==
    /\ LVSReturned
    /\ lvs.variant = "CC"
    /\ lvs.ext.ik1 = <<<<2, 1>>, <<5, 5>>>>
    /\ lvs.ext.ik2 = <<<<5, 0>>, <<2, 5>>>>
    /\ lvs.prm = LVSPlanProfile(1, 2, 2, 1)
    /\ Len(Moves) = 4
    /\ Moves[1].waypoint.position = [num |-> <<17, 20>>, den |-> 4]
    /\ Moves[4].waypoint.position = Rat(<<2, 5>>)


-----------------------------------------------------------------------------
(* Inverse kinematics without a solution, seen from solve() *)

\* the two poses a logged call compares, in the frame its overload uses
PosesOf(c) ==
    LET flange(pose) == Compose(Inverse(WorldToBase), Compose(pose, Inverse(Tcp)))
        tool(q) == Compose(Compose(WorldToBase, CalcFwdKin(q)), Tcp)
    IN  IF c.slot.pair = "joint_joint"
        THEN <<tool(c.start.position), tool(c.end.position)>>
        ELSE IF c.slot.pair = "joint_cart"
        THEN <<CalcFwdKin(c.start.position), flange(c.end.pose)>>
        ELSE IF c.slot.pair = "cart_joint"
        THEN <<flange(c.start.pose), CalcFwdKin(c.end.position)>>
        ELSE <<flange(c.start.pose), flange(c.end.pose)>>

\* the logged call asked the inverse solver and got no solution for a pose
IkFailed(c) ==
    /\ c.ik_calls > 0
    /\ ~c.thrown
    /\ \/ isCartesianWaypoint(c.start) /\ c.j1 = <<>>
       \/ isCartesianWaypoint(c.end) /\ c.j2 = <<>>

\* the step count from translation, rotation and min_steps alone
CountWithoutJoints(c) ==
    LET p == PosesOf(c)
        prm == ResolveProfile(planner, request, c.leaf)
    IN  MaxOf({ FloorPlusOne(Abs(p[2].t - p[1].t),
                             prm.translation_longest_valid_segment_length),
                FloorPlusOne(Abs(p[2].r - p[1].r),
                             prm.rotation_longest_valid_segment_length),
                prm.min_steps })

\* C21: inverse kinematics finding no solution for a cartesian endpoint is
\* not a failure. The step generator does not throw, the joint term is left
\* out of the step count (translation, rotation and min_steps only), the walk
\* goes on with the following plan instructions, and solve() still returns
\* SolutionFound unless a later plan instruction is itself rejected.
C21_IkFailureIsSoft ==
    \A i \in 1..Len(calls) :
        /\ calls[i].ik_calls > 0 => ~calls[i].thrown
        /\ IkFailed(calls[i]) =>
              /\ calls[i].steps = CountWithoutJoints(calls[i])
              /\ (Finished /\ i < Len(ProgramLeaves)) =>
                    \/ Len(calls) > i
                    \/ error_what \in ProcessingFailures
                    \/ /\ outcome = "aborted"
                       /\ ProgramLeaves[i + 1].waypoint.k \notin SupportedKinds
              /\ (Finished /\ error_what = "" /\ outcome # "aborted") =>
                    Succeeded /\ Len(calls) = Len(ProgramLeaves)

\* no solution for the first leaf's pose, the second leaf is still expanded
C21_Witness ==
    /\ Succeeded
    /\ Len(calls) = 2
    /\ IkFailed(calls[1])
    /\ calls[1].slot.pair = "joint_cart"
    /\ calls[1].steps > 1
    /\ calls[2].emitted > 0

-----------------------------------------------------------------------------
(* The cartesian-state generators *)

\* C22: each of the four LVSInterpolateCartStateWaypoint overloads fails at
\* once for every input: it raises the not-implemented failure before any
\* kinematics call and never returns a composite.
C22_CartStateNotImplemented ==
    (lvs.state = "returned" /\ lvs.variant = "CartState") =>
        /\ lvs.result.thrown
        /\ lvs.result.what = NotImplemented
        /\ lvs.result.fk_calls = 0
        /\ lvs.result.ik_calls = 0
        /\ lvs.result.composite = EmptyComposite

\* the overload for a cartesian start and a joint end, with a linear base
C22_Witness ==
    /\ lvs.state = "returned"
    /\ lvs.variant = "CartState"
    /\ isCartesianWaypoint(lvs.start)
    /\ isJointWaypoint(lvs.end)
    /\ isLinear(lvs.base_instruction)
    /\ lvs.result.what = NotImplemented

-----------------------------------------------------------------------------
(* Solvers that disagree on the joint names *)

\* the manipulator the generators look the solvers up for
CombinedManipulator ==
    getCombined(ManipulatorInfo("m1"), lvs.base_instruction.manip_info).manipulator

\* C23: in every LVS overload with a cartesian endpoint, when the forward
\* and the inverse solver report different joint-name sequences (the same
\* names in another order included) the generator raises a failure before it
\* calls inverse kinematics and before it emits a move.
C23_SolverNamesMustAgree ==
    ( /\ lvs.state = "returned"
      /\ lvs.variant \in {"JC", "CJ", "CC"}
      /\ InvJointNames(CombinedManipulator) # FwdJointNames(CombinedManipulator) ) =>
        /\ lvs.result.thrown
        /\ lvs.result.what = NamesDiffer
        /\ lvs.result.ik_calls = 0
        /\ lvs.result.composite.children = <<>>

\* the same two names in the other order, answers ready for both poses
C23_Witness ==
    /\ lvs.state = "returned"
    /\ lvs.variant = "CC"
    /\ InvJointNames(CombinedManipulator) = <<"a", "b">>
    /\ FwdJointNames(CombinedManipulator) = <<"b", "a">>
    /\ lvs.ext.ik1 # <<>>
    /\ lvs.ext.ik2 # <<>>
    /\ lvs.result.what = NamesDiffer

\* a name the forward solver does not have
C23_OtherNameWitness ==
    /\ lvs.state = "returned"
    /\ lvs.variant = "JC"
    /\ InvJointNames(CombinedManipulator) = <<"b", "c">>
    /\ lvs.ext.ik2 # <<>>
    /\ lvs.result.what = NamesDiffer

-----------------------------------------------------------------------------
(* The metadata of the emitted moves *)

\* C26: every MoveInstruction LVSInterpolateStateWaypoint emits has the type
\* LINEAR or FREESPACE of the base instruction, a state waypoint over the
\* joint names of the solver the overload takes them from (the inverse solver
\* between two poses, the forward solver otherwise; the two lists are equal
\* whenever both are consulted), and the manipulator info, description and profile of
\* the base instruction; with a base instruction that is neither linear nor
\* freespace the generator fails and emits nothing.
C26_MovesCarryBaseMetadata ==
    (lvs.state = "returned" /\ lvs.variant \in {"JJ", "JC", "CJ", "CC"}) =>
        LET base == lvs.base_instruction
        IN  /\ \A k \in 1..Len(Moves) :
                  /\ Moves[k].kind = "move"
                  /\ Moves[k].type = (IF isLinear(base) THEN "LINEAR" ELSE "FREESPACE")
                  /\ isStateWaypoint(Moves[k].waypoint)
                  /\ Moves[k].waypoint.joint_names =
                        (IF lvs.variant = "CC" THEN InvJointNames(CombinedManipulator)
                         ELSE FwdJointNames(CombinedManipulator))
                  /\ Moves[k].manip_info = base.manip_info
                  /\ Moves[k].description = base.description
                  /\ Moves[k].profile = base.profile
            /\ ~(isLinear(base) \/ isFreespace(base)) =>
                  lvs.result.thrown /\ Moves = <<>>

\* a freespace base instruction expanded into several moves
C26_Witness ==
    /\ lvs.state = "returned"
    /\ lvs.variant = "CJ"
    /\ isFreespace(lvs.base_instruction)
    /\ lvs.base_instruction.description = "cf"
    /\ Len(Moves) >= 2
    /\ Moves[1].type = "FREESPACE"

\* a base instruction of type START reaches the branch on the move type
C26_UnsupportedTypeWitness ==
    /\ lvs.state = "returned"
    /\ lvs.variant = "JJ"
    /\ lvs.base_instruction.type = "START"
    /\ lvs.result.what = BadMoveType

-----------------------------------------------------------------------------
(* The joint states at the boundary between two segments *)

\* the logged call holds a joint state for both of its endpoints
Resolved(c) == ~c.thrown /\ c.j1 # <<>> /\ c.j2 # <<>> /\ c.emitted > 0

\* C27: for two consecutive plan instructions whose endpoints are all
\* resolved, the joint state the second run is interpolated from equals the
\* last joint state emitted for the first one, so that the seed is one
\* connected path in joint space.
C27_SeedContinuity ==
    \A i \in 2..Len(calls) :
        (Resolved(calls[i - 1]) /\ Resolved(calls[i])) =>
            calls[i].j1 = calls[i - 1].j2

\* a pose with the two solutions <<5, 5>> and <<2, 1>>: the first run ends
\* at the one closest to where it started, the second starts from the one
\* closest to where it is going
C27_BrokenPath ==
    /\ Succeeded
    /\ request.instructions.start = NoStart
    /\ Len(calls) = 2
    /\ calls[1].leaf.description = "cl"
    /\ calls[2].leaf.description = "sf"
    /\ calls[1].j1 = <<2, 1>>
    /\ calls[1].j2 = <<2, 1>>
    /\ calls[2].j1 = <<5, 5>>
    /\ calls[2].j2 = <<4, 4>>
    /\ response.results.children[1].children[calls[1].emitted].waypoint.position
          = Rat(<<2, 1>>)

-----------------------------------------------------------------------------
(* Children that are neither composites nor plan instructions *)

\* the first n children of input sit in output, the other ones as they are
RECURSIVE CopiedInPlace(_, _, _)
CopiedInPlace(input, output, n) ==
    /\ Len(output.children) = n
    /\ \A k \in 1..n :
          LET ic == input.children[k]
              oc == output.children[k]
          IN  IF isCompositeInstruction(ic)
              THEN isCompositeInstruction(oc) /\ CopiedInPlace(ic, oc, Len(ic.children))
              ELSE ~isPlanInstruction(ic) => oc = ic

\* the waypoint the walk holds after its last strategy call
LastPlannedWaypoint ==
    IF calls = <<>> THEN start_instruction.waypoint
    ELSE calls[Len(calls)].leaf.waypoint

\* the loop has just stepped over a child that is no composite and no plan
JustCopied ==
    /\ pc = "process"
    /\ Top.i > 1
    /\ LET c == TopNode.children[Top.i - 1]
       IN  ~isCompositeInstruction(c) /\ ~isPlanInstruction(c)

\* C28: a child that is neither a composite nor a plan instruction is copied
\* unchanged into the same position of the output composite, and the running
\* waypoint is not changed by it.
C28_OtherChildrenCopied ==
    /\ \A f \in 1..Len(stack) :
          CopiedInPlace(NodeAt(request.instructions, stack[f].path), stack[f].seed,
                        stack[f].i - 1)
    /\ Succeeded =>
          CopiedInPlace(request.instructions, response.results,
                        Len(request.instructions.children))
    /\ JustCopied => start_waypoint = LastPlannedWaypoint

\* a plan instruction, another instruction, a plan instruction
C28_Witness ==
    /\ Succeeded
    /\ Len(request.instructions.children) = 3
    /\ request.instructions.children[2] = OtherInstruction
    /\ response.results.children[2] = OtherInstruction
    /\ Len(calls) = 2
    /\ calls[2].from = request.instructions.children[1].waypoint
    /\ calls[2].emitted > 0

-----------------------------------------------------------------------------
(* The manipulator of the root composite *)

\* C29: the manipulator info handed to every step-generation strategy is the
\* one of the root composite of the request, also for a plan instruction in a
\* nested composite that carries another one; the forward solver the start
\* state is resolved with is looked up for the root's manipulator alone.
C29_RootManipulatorOnly ==
    /\ \A i \in 1..Len(calls) :
          calls[i].manip_info = request.instructions.manip_info
    /\ kin.fwd_lookups > 0 =>
          /\ kin.fwd_lookups = 1
          /\ kin.fwd_manipulator = request.instructions.manip_info.manipulator

\* a cartesian leaf in a nested composite of manipulator "m2", whose inverse
\* solver orders the joints otherwise, expanded with the root's "m1"
C29_Witness ==
    /\ Succeeded
    /\ Len(request.instructions.children) >= 1
    /\ isCompositeInstruction(request.instructions.children[1])
    /\ request.instructions.children[1].manip_info = ManipulatorInfo("m2")
    /\ Len(request.instructions.children[1].children) >= 1
    /\ Len(calls) >= 1
    /\ calls[1].leaf = request.instructions.children[1].children[1]
    /\ calls[1].slot.pair = "joint_cart"
    /\ calls[1].manip_info = ManipulatorInfo("m1")
    /\ calls[1].emitted > 0
    /\ kin.fwd_manipulator = "m1"

\* a start instruction that names "m2", resolved with the solver of "m1"
C29_StartWitness ==
    /\ Succeeded
    /\ hasStartInstruction(request.instructions)
    /\ request.instructions.start.manip_info = ManipulatorInfo("m2")
    /\ isCartesianWaypoint(request.instructions.start.waypoint)
    /\ kin.fwd_manipulator = "m1"

-----------------------------------------------------------------------------
(* clone(), clear() and terminate() *)

\* C30: clone() returns a new planner with the default name whose registry
\* holds only the built-in default profile under the default key, whatever
\* the name of the original and whatever was registered or overridden on
\* it; clone(), clear() and terminate() leave the registry and the name of
\* the original as they are; terminate() returns false.
C30_CloneIsFresh ==
    [][ life' # life =>
          /\ planner' = planner
          /\ life'.op = "clone" =>
                /\ life'.result.name_ = DefaultName
                /\ DOMAIN life'.result.plan_profiles = {DEFAULT_PROFILE_KEY}
                /\ life'.result.plan_profiles[DEFAULT_PROFILE_KEY]
                      = SimplePlannerDefaultLVSPlanProfile
          /\ life'.op = "terminate" => life'.result = FALSE ]_vars

\* the clone of a planner that has a name of its own, another profile under
\* the default key and a second registration
C30_Witness ==
    /\ life.op = "clone"
    /\ planner.name_ = "OtherPlanner"
    /\ planner.plan_profiles[DEFAULT_PROFILE_KEY] = ScenarioProfile
    /\ "cart" \in DOMAIN planner.plan_profiles
    /\ life.result = NewPlanner(DefaultName)

\* terminate() on such a planner
C30_TerminateWitness ==
    /\ life.op = "terminate"
    /\ life.result = FALSE
    /\ planner.name_ = "OtherPlanner"
    /\ "null" \in DOMAIN planner.plan_profiles

-----------------------------------------------------------------------------
(* The fixed-size generators *)

\* C24: every overload of the fixed-size generator, called with steps = N,
\* returns exactly N MoveInstructions when N > 0 and an empty sequence when
\* N <= 0.
C24_FixedSizeOutput ==
    (lvs.state = "returned" /\ ~lvs.result.thrown) =>
        Len(lvs.result.composite.children) = (IF lvs.steps > 0 THEN lvs.steps ELSE 0)

\* three moves between a pose and a joint state, the last one at the end
C24_Witness ==
    /\ lvs.state = "returned"
    /\ lvs.variant = "FixedState"
    /\ isCartesianWaypoint(lvs.start)
    /\ isJointWaypoint(lvs.end)
    /\ lvs.steps = 3
    /\ Len(lvs.result.composite.children) = 3
    /\ lvs.result.composite.children[3].waypoint.position = Rat(lvs.end.position)

\* a negative count, between two poses
C24_EmptyWitness ==
    /\ lvs.state = "returned"
    /\ lvs.variant = "FixedCartState"
    /\ isCartesianWaypoint(lvs.start)
    /\ isCartesianWaypoint(lvs.end)
    /\ lvs.steps = -1
    /\ ~lvs.result.thrown
    /\ lvs.result.composite.children = <<>>

-----------------------------------------------------------------------------
(* What solve() shares with another solve() on the same planner *)

\* a step of solve(): every step of the model but a registration
SolveStep == pc # "idle" \/ pc' # "idle"

=============================================================================
